---- MODULE Spec2Model ----
(***************************************************************************)
(* PeerGuard: the peermap rendezvous server (package peermap) and the peer *)
(* agent (package p2p) of src/disco/disco.go, as state machines.           *)
(*                                                                         *)
(*   Spec          the peermap server: upgrade handler, directory, global  *)
(*                 index and session teardown.                             *)
(*   SpecRelay     the peermap server: the join broadcast, the read loop's *)
(*                 dispatch, and the agent end of each WebSocket (writeTo, *)
(*                 keepState, ReadFrom).                                   *)
(*   SpecKeepalive one server session with the 12 s keepalive ticker and   *)
(*                 the network-secret rotation, in seconds.                *)
(*   SpecAgent     one agent: the peer-context map, its event consumer and *)
(*                 WriteTo, in seconds.                                    *)
(***************************************************************************)
EXTENDS Integers, Sequences, FiniteSets, TLC

(***************************************************************************)
(* Bounds of the model.                                                    *)
(***************************************************************************)
MaxSessions == 3      \* upgrade requests the server sees
MaxInFlight == 1      \* frames in flight agent -> server
MaxQueue == 2         \* frames in flight server -> agent, and queued datagrams
MaxTime == 40         \* seconds the clock runs
MaxConns == 2         \* sockets requestSTUN opens
MaxEvents == 1        \* events waiting on peerEvent
MaxCalls == 1         \* WriteTo calls

Sessions == 1..MaxSessions

(***************************************************************************)
(* Control codes (ControlCode constants of package disco, and the agent's  *)
(* view of the same bytes in package peer).                                *)
(***************************************************************************)
CONTROL_RELAY == 0
CONTROL_NEW_PEER == 1
CONTROL_NEW_PEER_UDP_ADDR == 2
CONTROL_LEAD_DISCO == 3
CONTROL_UPDATE_NETWORK_SECRET == 20
CONTROL_CONN == 30
CONTROL_PRE_NAT_TRAVERSAL == 1
CONTROL_NAT_TRAVERSAL == 3

(***************************************************************************)
(* Bytes.  A byte is 0..255; Go's byte arithmetic wraps modulo 256.        *)
(***************************************************************************)
ByteWrap(x) == x % 256

RECURSIVE Xor(_, _)
Xor(a, b) ==
  IF a = 0 THEN b
  ELSE IF b = 0 THEN a
  ELSE (((a % 2) + (b % 2)) % 2) + (2 * Xor(a \div 2, b \div 2))

\* peer.MustParseNonce(X-Nonce): the byte the client chose for its connection
Nonces == <<17, 42, 99, 7, 63>>
NonceOf(s) == Nonces[((s - 1) % Len(Nonces)) + 1]

\* v ^ nonce for every byte v and every nonce in use
XorTable == [k \in 1..Len(Nonces) |-> [v \in 0..255 |-> Xor(v, Nonces[k])]]
NonceIndex(nonce) == CHOOSE k \in 1..Len(Nonces) : Nonces[k] = nonce

\* for i, v := range b { b[i] = v ^ nonce }
XorBytes(b, nonce) ==
  LET row == XorTable[NonceIndex(nonce)] IN [i \in 1..Len(b) |-> row[b[i]]]

\* PeerID.Len: byte(len(id))
PeerIDLen(id) == ByteWrap(Len(id))

\* Go's b[lo:hi] on a slice whose capacity is its length; lo, hi are 0-based.
Slice(b, lo, hi) == SubSeq(b, lo + 1, hi)

(***************************************************************************)
(* Inputs of the upgrade handler.  A request carries X-Network (a token    *)
(* that names a network, its neighbour list and, through its deadline, its *)
(* issue time), X-PeerID, X-Metadata and X-Nonce.                          *)
(***************************************************************************)
IDa == <<97>>
IDb == <<98, 99>>
IDc == <<100>>
PeerIDs == {IDa, IDb, IDc}

PublicNetwork == "pub"
Networks == {"n1", "n2", PublicNetwork}
NoNet == "none"
NoSession == 0

\* url.Values{"silenceMode": {"1"}}.Encode() = "silenceMode=1"
SilenceMeta == <<115, 105, 108, 101, 110, 99, 101, 77, 111, 100, 101, 61, 49>>
NoMeta == <<>>
\* url.Values.Has("silenceMode")
HasSilenceMode(meta) == meta = SilenceMeta

NoHeader == [net |-> NoNet, id |-> <<>>, meta |-> NoMeta, neigh |-> {}, issued |-> 0]

Payloads == {<<104, 105>>}
SendCodes == {CONTROL_RELAY, CONTROL_NEW_PEER_UDP_ADDR, CONTROL_LEAD_DISCO}

VARIABLES
  st,          \* per request: position of HandlePeerPacketConnect
  hdr,         \* per request: the headers it carried
  conn,        \* per session: Peer.conn: "nil", "open" or "closed"
  rl,          \* per session: position of the readMessageLoop goroutine
  ka,          \* per session: position of the keepalive goroutine
  networkMap,  \* PeerMap.networkMap: the networks that have a context
  neighbors,   \* networkContext.neighbors, per network
  updateTime,  \* networkContext.updateTime, per network
  dir,         \* networkContext.peers, per network: PeerID -> session
  peerMap,     \* PeerMap.peerMap: PeerID -> network
  wsIn,        \* per connection: frames written by the agent, not yet read
  wsOut,       \* per connection: frames written by the server, not yet read
  connData,    \* per session: Peer.connData
  inbound,     \* per agent: PeerPacketConn.inbound
  lastRead,    \* per agent: what the last ReadFrom returned
  crashed      \* a goroutine of the server panicked: the process is gone

VARIABLES
  now,           \* the clock, in seconds
  cfg,           \* Config.SecretValidityPeriod and SecretRotationPeriod, seconds
  activeTime,    \* per session: Peer.activeTime
  nextTick,      \* per session: when keepalive's ticker fires next
  deadline,      \* per session: Peer.networkSecret.Deadline
  kaSent         \* per session: empty text frames keepalive has written

kaVars == <<now, cfg, activeTime, nextTick, deadline, kaSent>>

\* one agent's PeerPacketConn
VARIABLES
  peersMap,      \* PeerPacketConn.peersMap: PeerID -> PeerContext
  peerEvent,     \* PeerPacketConn.peerEvent, the events not yet consumed
  hcDue,         \* when healthcheckTimer fires next
  wt,            \* the WriteTo call in progress, if any
  udpSent,       \* the datagrams written to the peers' sockets
  wsSent,        \* the frames written to wsConn
  ret,           \* what the last WriteTo call returned
  calls,         \* the WriteTo calls that have returned
  nextConn       \* the sockets requestSTUN has opened

agVars == <<peersMap, peerEvent, hcDue, wt, udpSent, wsSent, ret, calls, nextConn>>

\* the agent's sockets, STUN transactions, Close and ReadFrom
VARIABLES
  openConns,     \* the sockets requestSTUN opened that nobody has closed
  stunTx,        \* PeerPacketConn.stunTxIDMap: the transactions awaiting a response
  closeAt,       \* how many statements of PeerPacketConn.Close have run
  rf,            \* the ReadFrom call in progress, if any
  agFault,       \* the panic that ended the agent's process, if any
  task,          \* the goroutines keepState started: "run" or "exited"
  udpLoops       \* the sockets whose runReadUDPLoop is blocked in ReadFromUDP

cxVars == <<openConns, stunTx, closeAt, rf, agFault, task, udpLoops>>

\* the pure functions under test and the network's data limiter
VARIABLES
  arg,           \* the input a pure function is applied to
  res,           \* what it returned, or "none" before the call
  lim            \* the rate.Limiter of a network and the bytes its sessions passed

\* the in-band stream of the server's sessions
VARIABLES
  connBuf,       \* per session: Peer.connBuf, empty for nil
  readOut        \* per session: the bytes Peer.Read has returned, in order

rdVars == <<connBuf, readOut>>

\* the punch-through loop of the agent
VARIABLES
  nt,            \* the natTraversal goroutine: its position, i and interval
  stunChan       \* PeerPacketConn.stunChan: the STUN packets not yet parsed

\* the goroutines beside the handlers
VARIABLES
  retry,         \* the events whose time.AfterFunc has not fired yet
  lck,           \* per lock of the server: its writer and its readers
  pcl,           \* per task of the server: the lock operation it is at
  sentAt,        \* the second the client of session 1 last wrote a frame
  iter           \* readMessageLoop of session 1: its position and its frame
coVars == <<retry, lck, pcl, sentAt, iter>>
exVars == <<rdVars, nt, stunChan, coVars>>

fnVars == <<arg, res, lim, exVars>>

srvVars == <<st, hdr, conn, rl, ka, networkMap, neighbors, updateTime, dir,
             peerMap, wsIn, wsOut, connData, inbound, lastRead, crashed>>

NoRead == [addr |-> <<>>, data |-> <<>>, n |-> -1]

(***************************************************************************)
(* Frames.                                                                 *)
(***************************************************************************)
\* PeerPacketConn.writeTo: action || len(tgt) || tgt || p, XORed with the nonce
AgentFrame(action, tgtPeer, p, nonce) ==
  XorBytes(<<action, PeerIDLen(tgtPeer)>> \o tgtPeer \o p, nonce)

\* b[1]+2 in byte arithmetic: the end of the address field
AddrEnd(b) == ByteWrap(b[2] + 2)

\* b[0], b[1] or b[2 : b[1]+2] faults (the capacity of b taken to be its length)
FramePanics(b) == Len(b) < 2 \/ AddrEnd(b) < 2 \/ AddrEnd(b) > Len(b)

\* peer.ID(b[2 : b[1]+2])
FrameAddr(b) == Slice(b, 2, AddrEnd(b))
\* b[b[1]+2:]
FrameData(b) == Slice(b, AddrEnd(b), Len(b))

\* Peer.leadDisco: the NEW_PEER frame that introduces the session with header h
NewPeerFrame(h) == <<CONTROL_NEW_PEER, PeerIDLen(h.id)>> \o h.id \o h.meta

\* readMessageLoop, default branch: bb[2 : p.id.Len()+2] faults when the sum wraps
ForwardPanics(srcID) == ByteWrap(PeerIDLen(srcID) + 2) < 2
\* readMessageLoop, default branch: the frame rewritten for the target
ForwardFrame(b, srcID) == <<b[1], PeerIDLen(srcID)>> \o srcID \o FrameData(b)

(***************************************************************************)
(* Directory and global index.                                             *)
(***************************************************************************)
EmptyDir == [id \in PeerIDs |-> NoSession]

\* networkContext.SetIfAbsent: TRUE iff the entry was absent (and is now set)
SetIfAbsentOK(peers, peerID) == peers[peerID] = NoSession
\* a SetIfAbsent that stores the new session whether or not the key is taken
SetIfAbsentOverwrites(peers, peerID, s) == [peers EXCEPT ![peerID] = s]
SetIfAbsent(peers, peerID, s) ==
  IF peers[peerID] = NoSession THEN [peers EXCEPT ![peerID] = s] ELSE peers

\* networkContext.removePeer: delete(ctx.peers, id)
CtxRemovePeer(peers, peerID) == [peers EXCEPT ![peerID] = NoSession]

\* a getPeer that accepts the global index's match without the neighbour test
getPeerAnyNetwork(network, peerID) ==
  IF network \in networkMap /\ peerID \in PeerIDs
  THEN IF dir[network][peerID] # NoSession
       THEN dir[network][peerID]
       ELSE IF peerMap[peerID] # NoNet THEN dir[peerMap[peerID]][peerID]
            ELSE NoSession
  ELSE NoSession

\* PeerMap.getPeer
getPeer(network, peerID) ==
  IF network \in networkMap /\ peerID \in PeerIDs
  THEN IF dir[network][peerID] # NoSession
       THEN dir[network][peerID]
       ELSE LET neighNet == peerMap[peerID] IN
            IF neighNet # NoNet /\ neighNet \in neighbors[network]
            THEN dir[neighNet][peerID]
            ELSE NoSession
  ELSE NoSession

\* networkContext.initMeta: the neighbour list and update time after it
InitMetaSkips(n, h) == n \in networkMap /\ updateTime[n] > h.issued

(***************************************************************************)
(* Writes to a session's connection.  Peer.write XORs with the target's    *)
(* nonce and calls conn.WriteMessage: a nil conn faults, a closed one      *)
(* returns an error that every caller here ignores.                        *)
(***************************************************************************)
PeerWrite(out, t, b) ==
  IF conn[t] = "nil" THEN [out |-> out, panic |-> TRUE]
  ELSE IF conn[t] = "closed" THEN [out |-> out, panic |-> FALSE]
  ELSE [out |-> [out EXCEPT ![t] = Append(@, XorBytes(b, NonceOf(t)))],
        panic |-> FALSE]

\* Peer.leadDisco(target): NEW_PEER(p) to target, then NEW_PEER(target) to p
leadDisco(out, p, target) ==
  LET w1 == PeerWrite(out, target, NewPeerFrame(hdr[p])) IN
  IF w1.panic THEN w1 ELSE PeerWrite(w1.out, p, NewPeerFrame(hdr[target]))

\* every queue stays within its bound: a write to a full connection blocks
Fits(out) == \A t \in Sessions : Len(out[t]) <= MaxQueue

(***************************************************************************)
(* Time, in seconds.                                                       *)
(***************************************************************************)
KeepalivePeriod == 12      \* time.NewTicker(12 * time.Second)
InactivityLimit == 25      \* time.Since(p.activeTime) > 25*time.Second
ExpireMargin == 10         \* Expire: now + SecretValidityPeriod - 10s
Forever == 1000000         \* Deadline: math.MaxInt64, of the public network

\* the deadline of the token a request presents: its issue time plus the
\* validity period (initMeta takes the issue time to be Deadline - validity)
TokenDeadline(h) ==
  IF h.net = PublicNetwork THEN Forever ELSE h.issued + cfg.validity

(***************************************************************************)
(* PeerMap.HandlePeerPacketConnect, in the steps other goroutines can see. *)
(***************************************************************************)
\* lines 1322-1371: get or create the network context, initMeta, SetIfAbsent
Connect(s, h) ==
  /\ ~crashed
  /\ st[s] = "new"
  /\ IF s = 1 THEN TRUE ELSE st[s - 1] # "new"
  /\ hdr' = [hdr EXCEPT ![s] = h]
  /\ networkMap' = networkMap \cup {h.net}
  /\ IF InitMetaSkips(h.net, h)
     THEN UNCHANGED <<neighbors, updateTime>>
     ELSE /\ neighbors' = [neighbors EXCEPT ![h.net] = h.neigh]
          /\ updateTime' = [updateTime EXCEPT ![h.net] = h.issued]
  /\ dir' = [dir EXCEPT ![h.net] = SetIfAbsent(@, h.id, s)]
  /\ st' = [st EXCEPT ![s] = IF SetIfAbsentOK(dir[h.net], h.id)
                             THEN "registered" ELSE "rejected400"]
  /\ deadline' = [deadline EXCEPT ![s] = TokenDeadline(h)]
  /\ UNCHANGED <<conn, rl, ka, peerMap, wsIn, wsOut, connData, inbound,
                 lastRead, crashed, now, cfg, activeTime, nextTick, kaSent,
                 agVars, cxVars, fnVars>>

\* lines 1372-1374: pm.peerMap[peerID] = networkCtx
Index(s) ==
  /\ ~crashed
  /\ st[s] = "registered"
  /\ peerMap' = [peerMap EXCEPT ![hdr[s].id] = hdr[s].net]
  /\ st' = [st EXCEPT ![s] = "indexed"]
  /\ UNCHANGED <<hdr, conn, rl, ka, networkMap, neighbors, updateTime, dir,
                 wsIn, wsOut, connData, inbound, lastRead, crashed, kaVars, agVars, cxVars,
                 fnVars>>

\* lines 1383, 1389: the upgrade succeeds and peer.conn is set
UpgradeOK(s) ==
  /\ ~crashed
  /\ st[s] = "indexed"
  /\ conn' = [conn EXCEPT ![s] = "open"]
  /\ st' = [st EXCEPT ![s] = "upgraded"]
  /\ UNCHANGED <<hdr, rl, ka, networkMap, neighbors, updateTime, dir, peerMap,
                 wsIn, wsOut, connData, inbound, lastRead, crashed, kaVars, agVars, cxVars,
                 fnVars>>

\* lines 1383-1388: the upgrade fails, the handler answers 500 and returns
UpgradeFail(s) ==
  /\ ~crashed
  /\ st[s] = "indexed"
  /\ st' = [st EXCEPT ![s] = "failed500"]
  /\ UNCHANGED <<hdr, conn, rl, ka, networkMap, neighbors, updateTime, dir,
                 peerMap, wsIn, wsOut, connData, inbound, lastRead, crashed, kaVars, agVars, cxVars,
                 fnVars>>

(***************************************************************************)
(* Peer.Start: the two goroutines, then the broadcast under the network's  *)
(* peers read lock.  Go ranges over the map in any order; a write to a     *)
(* peer whose conn is nil faults and net/http recovers the handler.        *)
(***************************************************************************)
Perms(S) ==
  {f \in [1..Cardinality(S) -> S] : \A i, j \in 1..Cardinality(S) : f[i] = f[j] => i = j}

RECURSIVE StartLoop(_, _, _)
StartLoop(s, order, out) ==
  IF order = <<>> THEN [out |-> out, panic |-> FALSE]
  ELSE LET w == leadDisco(out, s, Head(order)) IN
       IF w.panic THEN w ELSE StartLoop(s, Tail(order), w.out)

\* the peers Start introduces: every other key of ctx.peers that is not silent
StartTargets(s) ==
  {t \in Sessions : /\ \E id \in PeerIDs \ {hdr[s].id} : dir[hdr[s].net][id] = t
                    /\ ~HasSilenceMode(hdr[t].meta)}

\* Start returns before the broadcast
StartSkips(s) == HasSilenceMode(hdr[s].meta) \/ PublicNetwork = hdr[s].net

Start(s) ==
  /\ ~crashed
  /\ st[s] = "upgraded"
  /\ rl' = [rl EXCEPT ![s] = "run"]
  /\ ka' = [ka EXCEPT ![s] = "run"]
  /\ IF StartSkips(s)
     THEN /\ st' = [st EXCEPT ![s] = "started"]
          /\ UNCHANGED wsOut
     ELSE \E order \in Perms(StartTargets(s)) :
            LET r == StartLoop(s, order, wsOut) IN
            /\ Fits(r.out)
            /\ wsOut' = r.out
            /\ st' = [st EXCEPT ![s] = IF r.panic THEN "panicked" ELSE "started"]
  /\ activeTime' = [activeTime EXCEPT ![s] = now]
  /\ nextTick' = [nextTick EXCEPT ![s] = now + KeepalivePeriod]
  /\ UNCHANGED <<hdr, conn, networkMap, neighbors, updateTime, dir, peerMap,
                 wsIn, connData, inbound, lastRead, crashed, now, cfg, deadline,
                 kaSent, agVars, cxVars, fnVars>>

(***************************************************************************)
(* Peer.readMessageLoop: one iteration on a binary message.                *)
(***************************************************************************)
ConnDataCap == 128

\* what the iteration does with the de-obfuscated frame b read from session s:
\* the connections after it, what is queued on connData, whether it faulted
Dispatch(s, b) ==
  LET none == [out |-> wsOut, data |-> <<>>, panic |-> FALSE] IN
  IF FramePanics(b) THEN [none EXCEPT !.panic = TRUE]
  ELSE LET tgtPeer == getPeer(hdr[s].net, FrameAddr(b)) IN
       IF tgtPeer = NoSession THEN none
       ELSE IF b[1] = CONTROL_LEAD_DISCO
            THEN LET w == leadDisco(wsOut, s, tgtPeer) IN
                 [none EXCEPT !.out = w.out, !.panic = w.panic]
       ELSE IF b[1] = CONTROL_CONN
            THEN [none EXCEPT !.data = <<Tail(b)>>]
       ELSE IF ForwardPanics(hdr[s].id) THEN [none EXCEPT !.panic = TRUE]
       ELSE LET w == PeerWrite(wsOut, tgtPeer, ForwardFrame(b, hdr[s].id)) IN
            [none EXCEPT !.out = w.out, !.panic = w.panic]

\* a frame that ends inside its address field: b[2 : b[1]+2] is within the
\* capacity of the buffer ReadMessage returned or beyond it
ShortFrame(b) ==
  IF Len(b) < 2 THEN FALSE ELSE AddrEnd(b) >= 2 /\ AddrEnd(b) > Len(b)

\* the outcomes of the iteration: for a short frame either the slice
\* expression faults, or it reads on into the buffer and the PeerID it yields
\* resolves to nobody
DispatchOutcomes(s, b) ==
  IF ShortFrame(b)
  THEN {Dispatch(s, b), [out |-> wsOut, data |-> <<>>, panic |-> FALSE]}
  ELSE {Dispatch(s, b)}

ReadMessage(s) ==
  /\ ~crashed
  /\ rl[s] = "run"
  /\ conn[s] = "open"
  /\ wsIn[s] # <<>>
  /\ \E r \in DispatchOutcomes(s, XorBytes(Head(wsIn[s]), NonceOf(s))) :
     /\ Fits(r.out)
     /\ Len(connData[s]) + Len(r.data) <= ConnDataCap
     /\ wsOut' = r.out
     /\ connData' = [connData EXCEPT ![s] = @ \o r.data]
     /\ crashed' = r.panic
  /\ wsIn' = [wsIn EXCEPT ![s] = Tail(@)]
  /\ activeTime' = [activeTime EXCEPT ![s] = now]
  /\ UNCHANGED <<st, hdr, conn, rl, ka, networkMap, neighbors, updateTime, dir,
                 peerMap, inbound, lastRead, now, cfg, nextTick, deadline, kaSent,
                 agVars, cxVars, fnVars>>

(***************************************************************************)
(* The agent end of a connection.                                          *)
(***************************************************************************)
\* the frames written by agents and not yet read by the server
RECURSIVE InFlight(_)
InFlight(S) ==
  IF S = {} THEN 0
  ELSE LET s == CHOOSE x \in S : TRUE IN Len(wsIn[s]) + InFlight(S \ {s})

\* PeerPacketConn.writeTo(p, tgtPeer, action)
AgentSend(s, action, tgtPeer, p) ==
  /\ ~crashed
  /\ conn[s] = "open"
  /\ InFlight(Sessions) < MaxInFlight
  /\ \A x \in Sessions : wsOut[x] = <<>> /\ inbound[x] = <<>>
  /\ wsIn' = [wsIn EXCEPT ![s] = Append(@, AgentFrame(action, tgtPeer, p, NonceOf(s)))]
  /\ UNCHANGED <<st, hdr, conn, rl, ka, networkMap, neighbors, updateTime, dir,
                 peerMap, wsOut, connData, inbound, lastRead, crashed, kaVars, agVars, cxVars,
                 fnVars>>

\* PeerPacketConn.keepState, one binary message: RELAY goes to inbound; the
\* goroutines started for codes 1 and 3 are the subject of SpecAgent
AgentRecv(s) ==
  /\ conn[s] = "open"
  /\ wsOut[s] # <<>>
  /\ LET b == XorBytes(Head(wsOut[s]), NonceOf(s)) IN
     IF b[1] = CONTROL_RELAY
     THEN /\ Len(inbound[s]) < MaxQueue
          /\ inbound' = [inbound EXCEPT ![s] = Append(@, b)]
     ELSE UNCHANGED inbound
  /\ wsOut' = [wsOut EXCEPT ![s] = Tail(@)]
  /\ UNCHANGED <<st, hdr, conn, rl, ka, networkMap, neighbors, updateTime, dir,
                 peerMap, wsIn, connData, lastRead, crashed, kaVars, agVars, cxVars,
                 fnVars>>

\* PeerPacketConn.ReadFrom on an open agent: addr = b[2 : b[1]+2], the payload
\* copied into a buffer that holds it
ReadFrom(s) ==
  /\ inbound[s] # <<>>
  /\ LET b == Head(inbound[s]) IN
     lastRead' = [lastRead EXCEPT ![s] =
                    [addr |-> FrameAddr(b), data |-> FrameData(b),
                     n |-> Len(FrameData(b))]]
  /\ inbound' = [inbound EXCEPT ![s] = Tail(@)]
  /\ UNCHANGED <<st, hdr, conn, rl, ka, networkMap, neighbors, updateTime, dir,
                 peerMap, wsIn, wsOut, connData, crashed, kaVars, agVars, cxVars,
                 fnVars>>

\* the agent (or the network) ends the connection
AgentClose(s) ==
  /\ ~crashed
  /\ conn[s] = "open"
  /\ conn' = [conn EXCEPT ![s] = "closed"]
  /\ wsIn' = [wsIn EXCEPT ![s] = <<>>]
  /\ wsOut' = [wsOut EXCEPT ![s] = <<>>]
  /\ UNCHANGED <<st, hdr, rl, ka, networkMap, neighbors, updateTime, dir,
                 peerMap, connData, inbound, lastRead, crashed, kaVars, agVars, cxVars,
                 fnVars>>

(***************************************************************************)
(* Teardown.  Peer.close calls PeerMap.removePeer, which deletes the key   *)
(* from the network's peers under one lock and from the global index under *)
(* another, and then closes the connection.                                *)
(***************************************************************************)
\* removePeer, first half: ctx.removePeer(id)
RemoveFromDir(d, network, peerID) ==
  IF network \in networkMap
  THEN [d EXCEPT ![network] = CtxRemovePeer(@, peerID)]
  ELSE d
\* removePeer, second half: delete(pm.peerMap, id)
RemoveFromIndex(pm, network, peerID) ==
  IF network \in networkMap THEN [pm EXCEPT ![peerID] = NoNet] ELSE pm

\* readMessageLoop: ReadMessage fails; p.Close() closes exitSig and connData
\* and enters p.close()
ReadErr(s) ==
  /\ ~crashed
  /\ rl[s] = "run"
  /\ conn[s] = "closed"
  /\ dir' = RemoveFromDir(dir, hdr[s].net, hdr[s].id)
  /\ rl' = [rl EXCEPT ![s] = "closing"]
  /\ UNCHANGED <<st, hdr, conn, ka, networkMap, neighbors, updateTime, peerMap,
                 wsIn, wsOut, connData, inbound, lastRead, crashed, kaVars, agVars, cxVars,
                 fnVars>>

\* the rest of p.close() in the read loop's goroutine
ReadErrFinish(s) ==
  /\ ~crashed
  /\ rl[s] = "closing"
  /\ peerMap' = RemoveFromIndex(peerMap, hdr[s].net, hdr[s].id)
  /\ rl' = [rl EXCEPT ![s] = "exited"]
  /\ UNCHANGED <<st, hdr, conn, ka, networkMap, neighbors, updateTime, dir,
                 wsIn, wsOut, connData, inbound, lastRead, crashed, kaVars, agVars, cxVars,
                 fnVars>>

\* keepalive leaves its loop (the write failed, or the session was inactive:
\* SpecKeepalive has the clock) and enters p.close()
KeepaliveBreak(s) ==
  /\ ~crashed
  /\ ka[s] = "run"
  /\ dir' = RemoveFromDir(dir, hdr[s].net, hdr[s].id)
  /\ ka' = [ka EXCEPT ![s] = "closing"]
  /\ UNCHANGED <<st, hdr, conn, rl, networkMap, neighbors, updateTime, peerMap,
                 wsIn, wsOut, connData, inbound, lastRead, crashed, kaVars, agVars, cxVars,
                 fnVars>>

\* the rest of p.close() in the keepalive goroutine
KeepaliveFinish(s) ==
  /\ ~crashed
  /\ ka[s] = "closing"
  /\ peerMap' = RemoveFromIndex(peerMap, hdr[s].net, hdr[s].id)
  /\ conn' = [conn EXCEPT ![s] = "closed"]
  /\ wsIn' = [wsIn EXCEPT ![s] = <<>>]
  /\ wsOut' = [wsOut EXCEPT ![s] = <<>>]
  /\ ka' = [ka EXCEPT ![s] = "exited"]
  /\ UNCHANGED <<st, hdr, rl, networkMap, neighbors, updateTime, dir,
                 connData, inbound, lastRead, crashed, kaVars, agVars, cxVars,
                 fnVars>>

\* keepalive sees exitSig closed and returns
KeepaliveExit(s) ==
  /\ ~crashed
  /\ ka[s] = "run"
  /\ rl[s] \in {"closing", "exited"}
  /\ ka' = [ka EXCEPT ![s] = "exited"]
  /\ UNCHANGED <<st, hdr, conn, rl, networkMap, neighbors, updateTime, dir,
                 peerMap, wsIn, wsOut, connData, inbound, lastRead, crashed, kaVars, agVars, cxVars,
                 fnVars>>

(***************************************************************************)
(* The agent's peer contexts.                                              *)
(***************************************************************************)
OP_PEER_DISCO1 == 0
OP_PEER_DISCO2 == 1
OP_PEER_CONFIRM == 2
OP_PEER_HEALTHCHECK == 10

\* Node.peerKeepaliveInterval, in seconds
PeerKeepaliveInterval == 10

\* peerKeepaliveInterval/2 + time.Second
HealthcheckPeriod == (PeerKeepaliveInterval \div 2) + 1

NilAddr == "nil"
Addrs == {"10.0.0.2:7"}
NoConn == 0
\* the zero time.Time of a fresh PeerContext
NeverValid == 0 - Forever
NoCtx == [ok |-> FALSE, addr |-> NilAddr, conn |-> NoConn, lastValid |-> NeverValid]
NoPeer == <<>>
NoCall == [pc |-> "idle", tgt |-> NoPeer, p |-> <<>>]
NoRet == [n |-> 0, err |-> "none"]

NoReadFrom == [pc |-> "idle", n |-> 0, addr |-> NoPeer, err |-> "none", k |-> 0]

\* runPeerEventEngine, runNATTraversalLoop, runPeersHealthcheck and keepState
Tasks == {"engine", "natLoop", "healthcheck", "keepState"}

\* no function under test, no limiter
NoArg == "none"
NoLimiter ==
  [limit |-> 0, burst |-> 0, tokens |-> 0, last |-> 0, t |-> 0, passed |-> <<>>,
   wait |-> <<>>, reads |-> 0]
\* Peer.Read not called: connBuf nil
RdIdle ==
  /\ connBuf = [s \in Sessions |-> <<>>]
  /\ readOut = [s \in Sessions |-> <<>>]

\* natTraversal not started
NoDatagram == [conn |-> NoConn, addr |-> NilAddr, data |-> <<>>]
NoLoop == [pc |-> "idle", peerID |-> NoPeer, addr |-> NilAddr, i |-> 0, interval |-> 0,
           wake |-> 0, wrote |-> NoDatagram]

\* the server's locks: PeerMap.networkMapMutex, networkContext.peersMutex and
\* metaMutex of the one network, PeerMap.peerMapMutex, and Peer.wMut of two
\* sessions
Mutexes == {"networkMapMutex", "metaMutex", "peersMutex", "peerMapMutex",
            "wMut1", "wMut2"}

\* the goroutines that take them
Goroutines == {"start1", "connect", "close2", "relay", "keepalive1", "putMeta",
               "query"}
NoHolder == "none"

\* the read loop is at ReadMessage
NoIter == [pc |-> "read", b |-> <<>>]

\* no timer of the event consumer is running, every lock is free, every task
\* is at its first lock operation, and the read loop holds no frame
CoIdle ==
  /\ retry = {}
  /\ lck = [l \in Mutexes |-> [w |-> NoHolder, r |-> {}]]
  /\ pcl = [t \in Goroutines |-> 1]
  /\ sentAt = 0
  /\ iter = NoIter

\* no in-band stream, no punch-through loop, no STUN packet
ExIdle ==
  /\ RdIdle
  /\ nt = NoLoop
  /\ stunChan = <<>>
  /\ CoIdle

FnIdle ==
  /\ arg = NoArg
  /\ res = NoArg
  /\ lim = NoLimiter
  /\ ExIdle

\* no socket, no transaction, Close not called, no ReadFrom, every task running
CxInit ==
  /\ openConns = {}
  /\ stunTx = {}
  /\ closeAt = 0
  /\ rf = NoReadFrom
  /\ agFault = "none"
  /\ task = [x \in Tasks |-> "run"]
  /\ udpLoops = {}

\* the statements of PeerPacketConn.Close, in order, by what each one ends
CloseSteps == <<"ctx", "timer", "stunChan", "inbound", "peerEvent", "wsConn">>
\* Close has run the statement that ends x
Done(x) == \E i \in 1..closeAt : CloseSteps[i] = x

\* no goroutine has panicked
Alive == agFault = "none"

\* a healthcheckTimer that never fires: there is no agent
AgentIdle ==
  /\ peersMap = [id \in PeerIDs |-> NoCtx]
  /\ peerEvent = <<>>
  /\ hcDue = Forever
  /\ wt = NoCall
  /\ udpSent = <<>>
  /\ wsSent = <<>>
  /\ ret = NoRet
  /\ calls = 0
  /\ nextConn = 0
  /\ CxInit

\* time.Since(LastValidTime) > 2*peerKeepaliveInterval
Stale(ctx) == now - ctx.lastValid > 2 * PeerKeepaliveInterval

\* PeerPacketConn.peerConnected
peerConnected(peerID) == peersMap[peerID].ok /\ ~Stale(peersMap[peerID])

\* PeerPacketConn.handlePeerEvent: the map after event e
handlePeerEvent(e) ==
  IF e.op = OP_PEER_DISCO1 THEN
    [peersMap EXCEPT ![e.peerID] =
       [ok |-> TRUE, conn |-> e.conn, lastValid |-> NeverValid,
        addr |-> IF peersMap[e.peerID].ok THEN peersMap[e.peerID].addr ELSE NilAddr]]
  ELSE IF e.op = OP_PEER_DISCO2 THEN
    IF peersMap[e.peerID].ok
    THEN [peersMap EXCEPT ![e.peerID].addr = e.addr]
    ELSE peersMap
  ELSE IF e.op = OP_PEER_CONFIRM THEN
    IF peersMap[e.peerID].ok
    THEN [peersMap EXCEPT ![e.peerID].lastValid = now, ![e.peerID].addr = e.addr]
    ELSE peersMap
  ELSE
    [id \in PeerIDs |-> IF peersMap[id].ok /\ Stale(peersMap[id])
                        THEN NoCtx ELSE peersMap[id]]

\* handlePeerEvent: the sockets event e closes (peer.Conn.Close(), v.Conn.Close())
ClosedByNothing(e) == {}
ClosedBy(e) ==
  IF e.op = OP_PEER_DISCO1 THEN
    IF peersMap[e.peerID].ok THEN {peersMap[e.peerID].conn} ELSE {}
  ELSE IF e.op = OP_PEER_HEALTHCHECK THEN
    {peersMap[id].conn : id \in {x \in PeerIDs : peersMap[x].ok /\ Stale(peersMap[x])}}
  ELSE {}

\* OP_PEER_DISCO2 for a peer without a context is sent again by time.AfterFunc
Retried(e) == e.op = OP_PEER_DISCO2 /\ ~peersMap[e.peerID].ok

\* runPeerEventEngine: one event
\* c.peerEvent <- e on the queue q: a send on a closed channel panics, a send
\* on a full one blocks
SendPeerEvent(q, e) ==
  IF Done("peerEvent")
  THEN agFault' = "send on closed channel" /\ peerEvent' = q
  ELSE Len(q) < MaxEvents /\ peerEvent' = Append(q, e) /\ agFault' = agFault

\* runPeerEventEngine: one event; what is left in a closed queue is still
\* received
HandlePeerEvent ==
  /\ Alive
  /\ task["engine"] = "run"
  /\ peerEvent # <<>>
  /\ LET e == Head(peerEvent) IN
     /\ peersMap' = handlePeerEvent(e)
     /\ IF Retried(e) THEN SendPeerEvent(Tail(peerEvent), e)
        ELSE peerEvent' = Tail(peerEvent) /\ agFault' = agFault
     /\ hcDue' = IF e.op = OP_PEER_DISCO1 THEN now + HealthcheckPeriod ELSE hcDue
     /\ openConns' = openConns \ ClosedBy(e)
     /\ udpLoops' = udpLoops \ ClosedBy(e)
  /\ UNCHANGED <<srvVars, kaVars, stunTx, closeAt, rf, task, wt, udpSent, wsSent,
                 ret, calls, nextConn, fnVars>>

Event(op, peerID, addr, c) == [op |-> op, peerID |-> peerID, addr |-> addr, conn |-> c]

\* requestSTUN: a new socket with its read loop, OP_PEER_DISCO1 with it, and
\* the STUN transaction
RequestSTUN(peerID) ==
  /\ Alive
  /\ task["keepState"] = "run"
  /\ nextConn < MaxConns
  /\ nextConn' = nextConn + 1
  /\ SendPeerEvent(peerEvent, Event(OP_PEER_DISCO1, peerID, NilAddr, nextConn + 1))
  /\ openConns' = openConns \cup {nextConn + 1}
  /\ udpLoops' = udpLoops \cup {nextConn + 1}
  /\ stunTx' = IF Done("peerEvent") THEN stunTx
               ELSE stunTx \cup {[peerID |-> peerID, conn |-> nextConn + 1]}
  /\ UNCHANGED <<srvVars, kaVars, closeAt, rf, task, peersMap, hcDue, wt, udpSent,
                 wsSent, ret, calls, fnVars>>

\* natTraversal: OP_PEER_DISCO2 with the address the peermap forwarded
NatTraversal(peerID, addr) ==
  /\ Alive
  /\ task["keepState"] = "run"
  /\ SendPeerEvent(peerEvent, Event(OP_PEER_DISCO2, peerID, addr, NoConn))
  /\ UNCHANGED <<srvVars, kaVars, openConns, stunTx, closeAt, rf, task, udpLoops,
                 peersMap, hcDue, wt, udpSent, wsSent, ret, calls, nextConn,
                 fnVars>>

\* runReadUDPLoop: the loops that a datagram leaves running; the loop returns
\* at its next iteration once the context is cancelled
LoopsAfter(c) == IF Done("ctx") THEN udpLoops \ {c} ELSE udpLoops

\* runReadUDPLoop reads "_ping" + peerID from addr: OP_PEER_CONFIRM
ReadPing(peerID, addr) ==
  /\ Alive
  /\ \E c \in udpLoops : udpLoops' = LoopsAfter(c)
  /\ SendPeerEvent(peerEvent, Event(OP_PEER_CONFIRM, peerID, addr, NoConn))
  /\ UNCHANGED <<srvVars, kaVars, openConns, stunTx, closeAt, rf, task, peersMap,
                 hcDue, wt, udpSent, wsSent, ret, calls, nextConn, fnVars>>

\* runPeersHealthcheck: the timer fires, OP_PEER_HEALTHCHECK, Reset
HealthcheckFire ==
  /\ Alive
  /\ task["healthcheck"] = "run"
  /\ now = hcDue
  /\ SendPeerEvent(peerEvent, Event(OP_PEER_HEALTHCHECK, NoPeer, NilAddr, NoConn))
  /\ hcDue' = now + HealthcheckPeriod
  /\ UNCHANGED <<srvVars, kaVars, openConns, stunTx, closeAt, rf, task, udpLoops,
                 peersMap, wt, udpSent, wsSent, ret, calls, nextConn,
                 fnVars>>

\* the agent's own PeerID and the nonce of its session
AgentID == IDa
AgentNonce == NonceOf(1)

\* WriteTo up to the return of peerConnected; when the peer is not connected,
\* writeTo(p, tgtPeer, 0) follows and the call returns
WriteToCheck(tgtPeer, p) ==
  /\ wt.pc = "idle"
  /\ calls < MaxCalls
  /\ IF peerConnected(tgtPeer)
     THEN /\ wt' = [pc |-> "udp", tgt |-> tgtPeer, p |-> p]
          /\ UNCHANGED <<wsSent, ret, calls>>
     ELSE /\ wsSent' = Append(wsSent, AgentFrame(CONTROL_RELAY, tgtPeer, p, AgentNonce))
          /\ ret' = [n |-> Len(p), err |-> "nil"]
          /\ calls' = calls + 1
          /\ UNCHANGED wt
  /\ UNCHANGED <<srvVars, kaVars, cxVars, peersMap, peerEvent, hcDue, udpSent, nextConn,
                 fnVars>>

\* writeToUDP(tgtPeer, p), and WriteTo returns what it returns
WriteToUDP ==
  /\ wt.pc = "udp"
  /\ LET peerCtx == peersMap[wt.tgt] IN
     IF peerCtx.ok /\ peerCtx.addr # NilAddr
     THEN /\ udpSent' = Append(udpSent, [conn |-> peerCtx.conn, addr |-> peerCtx.addr,
                                         data |-> wt.p])
          /\ ret' = [n |-> Len(wt.p), err |-> "nil"]
     ELSE /\ ret' = [n |-> 0, err |-> "io.ErrClosedPipe"]
          /\ UNCHANGED udpSent
  /\ wt' = NoCall
  /\ calls' = calls + 1
  /\ UNCHANGED <<srvVars, kaVars, cxVars, peersMap, peerEvent, hcDue, wsSent, nextConn,
                 fnVars>>

(***************************************************************************)
(* The peermap server with its agents.                                     *)
(***************************************************************************)
\* SecretValidityPeriod and SecretRotationPeriod of scenario S5
DefaultConfig == [validity |-> 30, rotation |-> 10]

SrvVarsInit ==
  /\ st = [s \in Sessions |-> "new"]
  /\ hdr = [s \in Sessions |-> NoHeader]
  /\ conn = [s \in Sessions |-> "nil"]
  /\ rl = [s \in Sessions |-> "off"]
  /\ ka = [s \in Sessions |-> "off"]
  /\ networkMap = {}
  /\ neighbors = [n \in Networks |-> {}]
  /\ updateTime = [n \in Networks |-> 0]
  /\ dir = [n \in Networks |-> EmptyDir]
  /\ peerMap = [id \in PeerIDs |-> NoNet]
  /\ wsIn = [s \in Sessions |-> <<>>]
  /\ wsOut = [s \in Sessions |-> <<>>]
  /\ connData = [s \in Sessions |-> <<>>]
  /\ inbound = [s \in Sessions |-> <<>>]
  /\ lastRead = [s \in Sessions |-> NoRead]
  /\ crashed = FALSE

\* a server without requests, no agent
Quiet ==
  /\ SrvVarsInit
  /\ now = 0
  /\ cfg = DefaultConfig
  /\ activeTime = [s \in Sessions |-> 0]
  /\ nextTick = [s \in Sessions |-> 0]
  /\ deadline = [s \in Sessions |-> 0]
  /\ kaSent = [s \in Sessions |-> 0]
  /\ AgentIdle

SrvInit == Quiet /\ FnIdle

\* the requests of Spec: one PeerID in two networks, a second PeerID whose
\* token names n2 a neighbour of n1
DirHeaders ==
  { [net |-> "n1", id |-> IDa, meta |-> NoMeta, neigh |-> {}, issued |-> 0],
    [net |-> "n2", id |-> IDa, meta |-> NoMeta, neigh |-> {}, issued |-> 0],
    [net |-> "n1", id |-> IDb, meta |-> NoMeta, neigh |-> {"n2"}, issued |-> 1] }

Init == SrvInit

\* joins and teardowns; the agents only drain their connections
Next ==
  \E s \in Sessions :
    \/ \E h \in DirHeaders : Connect(s, h)
    \/ Index(s)
    \/ UpgradeOK(s)
    \/ UpgradeFail(s)
    \/ Start(s)
    \/ AgentRecv(s)
    \/ AgentClose(s)
    \/ ReadErr(s)
    \/ ReadErrFinish(s)
    \/ KeepaliveBreak(s)
    \/ KeepaliveFinish(s)
    \/ KeepaliveExit(s)

vars == <<srvVars, kaVars, agVars, cxVars, fnVars>>

Spec == Init /\ [][Next]_vars

(***************************************************************************)
(* The peermap server relaying frames: three peers of one network, one of  *)
(* them possibly silent, and a peer of the public network.                 *)
(***************************************************************************)
RelayHeaders(s) ==
  IF s = 1 THEN
    { [net |-> "n1", id |-> IDa, meta |-> NoMeta, neigh |-> {}, issued |-> 0] }
  ELSE IF s = 2 THEN
    { [net |-> "n1", id |-> IDb, meta |-> NoMeta, neigh |-> {}, issued |-> 0],
      [net |-> "n1", id |-> IDb, meta |-> SilenceMeta, neigh |-> {}, issued |-> 0] }
  ELSE
    { [net |-> "n1", id |-> IDc, meta |-> NoMeta, neigh |-> {}, issued |-> 0],
      [net |-> PublicNetwork, id |-> IDc, meta |-> NoMeta, neigh |-> {}, issued |-> 0] }

NextRelay ==
  \E s \in Sessions :
    \/ \E h \in RelayHeaders(s) : Connect(s, h)
    \/ Index(s)
    \/ UpgradeOK(s)
    \/ Start(s)
    \/ \E action \in SendCodes, tgtPeer \in {IDa, IDb}, p \in Payloads :
         AgentSend(s, action, tgtPeer, p)
    \/ ReadMessage(s)
    \/ AgentRecv(s)
    \/ ReadFrom(s)

SpecRelay == Init /\ [][NextRelay]_vars

(***************************************************************************)
(* Properties of the directory (Spec).                                     *)
(***************************************************************************)
\* the step in which request s passes SetIfAbsent or is turned away
ConnectStep(s) == st[s] = "new" /\ st'[s] # "new"

\* s holds the directory entry of its (network, PeerID)
InDir(s) == hdr[s].net \in Networks /\ dir[hdr[s].net][hdr[s].id] = s

\* the handler of s returned after Start, and no teardown of s has begun
Active(s) == st[s] \in {"started", "panicked"} /\ rl[s] = "run" /\ ka[s] = "run"

SamePeer(s, t) == s # t /\ hdr[s].net = hdr[t].net /\ hdr[s].id = hdr[t].id

\* C3: a request whose (network, PeerID) is registered is answered 400 and
\* changes neither the directory, nor the global index, nor any connection; a
\* request whose pair is free is registered; so of several requests for one
\* pair exactly one holds the entry, and no rejected request ever holds one.
C3_DuplicateRejected ==
  [][\A s \in Sessions : ConnectStep(s) =>
        /\ LET h == hdr'[s] IN
           IF dir[h.net][h.id] # NoSession
           THEN /\ st'[s] = "rejected400"
                /\ dir' = dir /\ peerMap' = peerMap /\ conn' = conn
           ELSE st'[s] = "registered" /\ dir'[h.net][h.id] = s
        /\ \A t \in Sessions : st'[t] = "rejected400" =>
             \A n \in Networks, id \in PeerIDs : dir'[n][id] # t]_vars

\* a request was rejected while the session that holds its pair is connected
C3_Witness ==
  \E s, t \in Sessions :
    /\ SamePeer(s, t) /\ st[s] = "rejected400"
    /\ InDir(t) /\ conn[t] = "open" /\ peerMap[hdr[t].id] = hdr[t].net

\* C4 (as claimed): every active session is in its network's directory iff the
\* global index maps its PeerID to its network.
C4_DirIffIndex ==
  \A s \in Sessions : Active(s) => (InDir(s) <=> peerMap[hdr[s].id] = hdr[s].net)

\* a request is open from its registration until a teardown of it begins
SessionOpen(t) ==
  /\ st[t] \in {"registered", "indexed", "upgraded", "started", "panicked"}
  /\ rl[t] \in {"off", "run"} /\ ka[t] \in {"off", "run"}

\* C5 (as claimed): a join with PeerID x in network n is accepted exactly when
\* no earlier session with ID x in n is still open.
C5_AcceptedIffPriorClosed ==
  [][\A s \in Sessions : ConnectStep(s) =>
        (st'[s] = "registered" <=>
           ~(\E t \in Sessions : t # s /\ hdr[t].net = hdr'[s].net
                                 /\ hdr[t].id = hdr'[s].id /\ SessionOpen(t)))]_vars

\* C6: from a session's network n, getPeer resolves a PeerID only to a session
\* of n or of a network in n's neighbour list.
C6_NoUnrelatedNetwork ==
  \A n \in networkMap, id \in PeerIDs :
    LET t == getPeer(n, id) IN
    t # NoSession => hdr[t].net = n \/ hdr[t].net \in neighbors[n]

\* a PeerID resolves across networks to a neighbour's session, while the same
\* lookup from that neighbour's side, where the networks are unrelated, fails
C6_Witness ==
  \E n, m \in networkMap, id, jd \in PeerIDs :
    /\ n # m
    /\ getPeer(n, id) # NoSession /\ hdr[getPeer(n, id)].net = m
    /\ dir[n][jd] # NoSession /\ peerMap[jd] = n /\ getPeer(m, jd) = NoSession

\* C8 (as claimed): every session in a network directory has an established
\* connection.
C8_DirEntriesConnected ==
  \A n \in Networks, id \in PeerIDs :
    dir[n][id] # NoSession => conn[dir[n][id]] # "nil"

(***************************************************************************)
(* Properties of relaying and of the join broadcast (SpecRelay).           *)
(***************************************************************************)
\* the frame the server read from s in this step, de-obfuscated
ReadStep(s) == rl[s] = "run" /\ wsIn[s] # <<>> /\ wsIn'[s] = Tail(wsIn[s])
ReadFrame(s) == XorBytes(Head(wsIn[s]), NonceOf(s))

\* C1 (as claimed): a RELAY or NEW_PEER_UDP_ADDR frame (code, tgt, payload) read
\* from session s whose target resolves to a session t that has not closed its
\* connection puts exactly one frame on t's connection: (code, s.id, payload)
\* under t's nonce.
C1_RelayDelivered ==
  [][\A s \in Sessions : ReadStep(s) =>
        LET b == ReadFrame(s)
            t == getPeer(hdr[s].net, FrameAddr(b)) IN
        (/\ b[1] \in {CONTROL_RELAY, CONTROL_NEW_PEER_UDP_ADDR}
         /\ t # NoSession /\ conn[t] # "closed")
        => wsOut'[t] = Append(wsOut[t],
                XorBytes(<<b[1], Len(hdr[s].id)>> \o hdr[s].id \o FrameData(b),
                         NonceOf(t)))]_vars

\* the NEW_PEER frame for the session with header h, as t's connection carries it
IntroFrame(h, t) ==
  XorBytes(<<CONTROL_NEW_PEER, Len(h.id)>> \o h.id \o h.meta, NonceOf(t))
\* a frame f was appended to t's connection in this step
Appended(t, f) ==
  \E i \in (Len(wsOut[t]) + 1)..Len(wsOut'[t]) : wsOut'[t][i] = f

\* C7 (as claimed, outside the public network): when s joins, s and each
\* connected peer e of its network exchange NEW_PEER iff neither is silent.
C7_IntroducedIffNotSilent ==
  [][\A s, e \in Sessions :
        (/\ st[s] = "upgraded" /\ st'[s] # "upgraded"
         /\ hdr[s].net # PublicNetwork
         /\ e # s /\ InDir(e) /\ hdr[e].net = hdr[s].net /\ conn[e] = "open")
        => ((Appended(e, IntroFrame(hdr[s], e)) /\ Appended(s, IntroFrame(hdr[e], s)))
            <=> (~HasSilenceMode(hdr[s].meta) /\ ~HasSilenceMode(hdr[e].meta)))]_vars


(***************************************************************************)
(* Peer.keepalive with a clock: one session that HandlePeerPacketConnect   *)
(* has just started, under a configuration and a token deadline chosen by  *)
(* Init.                                                                   *)
(***************************************************************************)
\* time.Since(p.activeTime) > 25*time.Second
InactiveTooLongAtLimit(s) == now - activeTime[s] >= InactivityLimit
InactiveTooLong(s) == now - activeTime[s] > InactivityLimit

\* time.Until(time.Unix(Deadline, 0)) < SecretValidityPeriod - SecretRotationPeriod
NeedsRotation(s) == deadline[s] - now < cfg.validity - cfg.rotation

\* auth.GenerateSecret(n, SecretValidityPeriod): a token that is valid for the
\* validity period from the moment of issue
GenerateSecretDeadline(t) == t + cfg.validity

\* PeerMap.generateSecret: the Expire field told to the agent
SecretExpire(t) == t + cfg.validity - ExpireMargin

\* Peer.updateSecret's frame: the code, then the secret as (Expire, Deadline)
UpdateSecretFrame(t) ==
  <<CONTROL_UPDATE_NETWORK_SECRET, SecretExpire(t), GenerateSecretDeadline(t)>>

\* a second passes; a ticker that is due fires before the clock moves on
Advance ==
  /\ ~crashed
  /\ now < MaxTime
  /\ \A s \in Sessions : ka[s] = "run" => now < nextTick[s]
  /\ now < hcDue
  /\ nt.pc = "loop" => nt.wake >= (now + 1) * 1000
  /\ iter.pc = "waitN" => lim.wait[1].at > now
  /\ now' = now + 1
  /\ UNCHANGED <<srvVars, cfg, activeTime, nextTick, deadline, kaSent, agVars, cxVars,
                 fnVars>>

\* readMessageLoop reads a message that is not binary: activeTime is set and
\* the loop continues
ReadText(s) ==
  /\ ~crashed
  /\ rl[s] = "run"
  /\ conn[s] = "open"
  /\ activeTime[s] # now
  /\ activeTime' = [activeTime EXCEPT ![s] = now]
  /\ UNCHANGED <<srvVars, now, cfg, nextTick, deadline, kaSent, agVars, cxVars, fnVars>>

\* one iteration of keepalive's loop on <-ticker.C
KeepaliveTick(s) ==
  /\ ~crashed
  /\ ka[s] = "run"
  /\ now = nextTick[s]
  /\ nextTick' = [nextTick EXCEPT ![s] = @ + KeepalivePeriod]
  /\ IF conn[s] # "open"
     THEN \* writeWS fails: break, p.close()
          /\ dir' = RemoveFromDir(dir, hdr[s].net, hdr[s].id)
          /\ ka' = [ka EXCEPT ![s] = "closing"]
          /\ UNCHANGED <<wsOut, deadline, kaSent>>
     ELSE /\ kaSent' = [kaSent EXCEPT ![s] = @ + 1]
          /\ IF InactiveTooLong(s)
             THEN /\ dir' = RemoveFromDir(dir, hdr[s].net, hdr[s].id)
                  /\ ka' = [ka EXCEPT ![s] = "closing"]
                  /\ UNCHANGED <<wsOut, deadline>>
             ELSE IF NeedsRotation(s)
             THEN LET w == PeerWrite(wsOut, s, UpdateSecretFrame(now)) IN
                  /\ Fits(w.out)
                  /\ wsOut' = w.out
                  /\ deadline' = [deadline EXCEPT ![s] = GenerateSecretDeadline(now)]
                  /\ UNCHANGED <<dir, ka>>
             ELSE UNCHANGED <<dir, ka, wsOut, deadline>>
  /\ UNCHANGED <<st, hdr, conn, rl, networkMap, neighbors, updateTime, peerMap,
                 wsIn, connData, inbound, lastRead, crashed, now, cfg, activeTime,
                 agVars, cxVars, fnVars>>

\* the configurations: scenario S5, and a rotation period close to the validity
Configs == { DefaultConfig, [validity |-> 30, rotation |-> 25] }

\* what is left of the validity of the token a peer joins with
TokenLeft(c) == {c.validity, 5}

KaHeader == [net |-> "n1", id |-> IDa, meta |-> NoMeta, neigh |-> {}, issued |-> 0]

\* session 1 right after Peer.Start, at time 0
KaStart ==
  /\ st = [s \in Sessions |-> IF s = 1 THEN "started" ELSE "new"]
  /\ hdr = [s \in Sessions |-> IF s = 1 THEN KaHeader ELSE NoHeader]
  /\ conn = [s \in Sessions |-> IF s = 1 THEN "open" ELSE "nil"]
  /\ rl = [s \in Sessions |-> IF s = 1 THEN "run" ELSE "off"]
  /\ ka = [s \in Sessions |-> IF s = 1 THEN "run" ELSE "off"]
  /\ networkMap = {KaHeader.net}
  /\ neighbors = [n \in Networks |-> {}]
  /\ updateTime = [n \in Networks |-> 0]
  /\ dir = [n \in Networks |-> IF n = KaHeader.net
                               THEN SetIfAbsent(EmptyDir, KaHeader.id, 1)
                               ELSE EmptyDir]
  /\ peerMap = [id \in PeerIDs |-> IF id = KaHeader.id THEN KaHeader.net ELSE NoNet]
  /\ wsIn = [s \in Sessions |-> <<>>]
  /\ wsOut = [s \in Sessions |-> <<>>]
  /\ connData = [s \in Sessions |-> <<>>]
  /\ inbound = [s \in Sessions |-> <<>>]
  /\ lastRead = [s \in Sessions |-> NoRead]
  /\ crashed = FALSE
  /\ now = 0
  /\ cfg \in Configs
  /\ activeTime = [s \in Sessions |-> 0]
  /\ nextTick = [s \in Sessions |-> IF s = 1 THEN KeepalivePeriod ELSE 0]
  /\ \E left \in TokenLeft(cfg) :
       deadline = [s \in Sessions |-> IF s = 1 THEN left ELSE 0]
  /\ kaSent = [s \in Sessions |-> 0]

KaInit == KaStart /\ AgentIdle /\ FnIdle

NextKeepalive ==
  \/ Advance
  \/ \E s \in Sessions :
       \/ ReadText(s)
       \/ KeepaliveTick(s)
       \/ KeepaliveFinish(s)
       \/ KeepaliveExit(s)
       \/ AgentRecv(s)
       \/ AgentClose(s)
       \/ ReadErr(s)
       \/ ReadErrFinish(s)

SpecKeepalive == KaInit /\ [][NextKeepalive]_vars

(***************************************************************************)
(* Properties of keepalive (SpecKeepalive).                                *)
(***************************************************************************)
\* the step in which session s's ticker fires
TickStep(s) == ka[s] = "run" /\ nextTick'[s] # nextTick[s]

\* the step in which keepalive's p.close() completes
CloseStep(s) == ka[s] = "closing" /\ ka'[s] = "exited"

Connected(s) ==
  st[s] = "started" /\ conn[s] = "open" /\ rl[s] = "run" /\ ka[s] = "run"

\* C10: at every instant the deadline of a connected session's network secret
\* is later than now, under every configured validity and rotation period.
C10_SecretNeverExpired ==
  \A s \in Sessions : Connected(s) => deadline[s] > now


(***************************************************************************)
(* One agent and the peer it talks to: the peer contexts, the event        *)
(* consumer, the healthcheck timer and WriteTo.                            *)
(***************************************************************************)
AgentPeer == IDb

AgInit ==
  /\ SrvVarsInit
  /\ now = 0
  /\ cfg = DefaultConfig
  /\ activeTime = [s \in Sessions |-> 0]
  /\ nextTick = [s \in Sessions |-> 0]
  /\ deadline = [s \in Sessions |-> 0]
  /\ kaSent = [s \in Sessions |-> 0]
  /\ peersMap = [id \in PeerIDs |-> NoCtx]
  /\ peerEvent = <<>>
  /\ hcDue = HealthcheckPeriod
  /\ wt = NoCall
  /\ udpSent = <<>>
  /\ wsSent = <<>>
  /\ ret = NoRet
  /\ calls = 0
  /\ nextConn = 0
  /\ CxInit
  /\ FnIdle

NextAgent ==
  \/ Advance
  \/ HandlePeerEvent
  \/ RequestSTUN(AgentPeer)
  \/ \E addr \in Addrs : NatTraversal(AgentPeer, addr)
  \/ \E addr \in Addrs : ReadPing(AgentPeer, addr)
  \/ HealthcheckFire
  \/ \E p \in Payloads : WriteToCheck(AgentPeer, p)
  \/ WriteToUDP

SpecAgent == AgInit /\ [][NextAgent]_vars

(***************************************************************************)
(* Properties of WriteTo (SpecAgent).                                      *)
(***************************************************************************)
\* the step in which a WriteTo call returns
WriteToReturns == calls' = calls + 1

\* C2: every WriteTo call transmits exactly once, a datagram on the peer's
\* socket or a RELAY frame to the peermap, and when the peer's context is gone
\* by the time of the send, what it transmits is the RELAY frame.
C2_WriteToTransmitsOnce ==
  [][WriteToReturns =>
       /\ Len(udpSent') + Len(wsSent') = Len(udpSent) + Len(wsSent) + 1
       /\ ~peersMap[AgentPeer].ok =>
            /\ Len(wsSent') = Len(wsSent) + 1
            /\ ret'.err = "nil"]_vars

(***************************************************************************)
(* Discovery: the agent of session 1 behind the peermap server, with a     *)
(* second peer of its network.  keepState dispatches on the codes of       *)
(* package peer, readMessageLoop on the codes of package disco.            *)
(***************************************************************************)
\* []byte(saddr.String()) of the agent's public address, and its parse
AddrBytes(a) == <<49, 48, 58, 55>>
ResolveUDPAddr(d) ==
  IF \E a \in Addrs : AddrBytes(a) = d
  THEN CHOOSE a \in Addrs : AddrBytes(a) = d
  ELSE NilAddr

\* c.inbound <- b: a send on a closed channel panics, a send on a full one
\* blocks
SendInbound(b) ==
  IF Done("inbound")
  THEN agFault' = "send on closed channel" /\ UNCHANGED inbound
  ELSE /\ Len(inbound[1]) < MaxQueue
       /\ inbound' = [inbound EXCEPT ![1] = Append(@, b)]
       /\ agFault' = agFault

\* PeerPacketConn.keepState, one binary message of the agent's connection:
\* RELAY goes to inbound, code 1 starts requestSTUN, code 3 natTraversal
KeepState ==
  /\ conn[1] = "open"
  /\ wsOut[1] # <<>>
  /\ Alive
  /\ task["keepState"] = "run"
  /\ LET b == XorBytes(Head(wsOut[1]), AgentNonce)
         code == IF b = <<>> THEN CONTROL_RELAY ELSE b[1] IN
     IF b = <<>> \/ (code \in {CONTROL_PRE_NAT_TRAVERSAL, CONTROL_NAT_TRAVERSAL}
                     /\ FramePanics(b))
     THEN /\ agFault' = "index out of range"
          /\ UNCHANGED <<inbound, peerEvent, nextConn, openConns, stunTx, udpLoops>>
     ELSE IF code = CONTROL_RELAY
     THEN /\ SendInbound(b)
          /\ UNCHANGED <<peerEvent, nextConn, openConns, stunTx, udpLoops>>
     ELSE IF code = CONTROL_PRE_NAT_TRAVERSAL
     THEN /\ nextConn < MaxConns
          /\ nextConn' = nextConn + 1
          /\ SendPeerEvent(peerEvent,
                           Event(OP_PEER_DISCO1, FrameAddr(b), NilAddr, nextConn + 1))
          /\ openConns' = openConns \cup {nextConn + 1}
          /\ udpLoops' = udpLoops \cup {nextConn + 1}
          /\ stunTx' = IF Done("peerEvent") THEN stunTx
                       ELSE stunTx \cup {[peerID |-> FrameAddr(b), conn |-> nextConn + 1]}
          /\ UNCHANGED inbound
     ELSE IF code = CONTROL_NAT_TRAVERSAL /\ ResolveUDPAddr(FrameData(b)) # NilAddr
     THEN /\ SendPeerEvent(peerEvent,
                           Event(OP_PEER_DISCO2, FrameAddr(b),
                                 ResolveUDPAddr(FrameData(b)), NoConn))
          /\ UNCHANGED <<inbound, nextConn, openConns, stunTx, udpLoops>>
     ELSE UNCHANGED <<inbound, peerEvent, nextConn, openConns, stunTx, agFault,
                      udpLoops>>
  /\ wsOut' = [wsOut EXCEPT ![1] = Tail(@)]
  /\ UNCHANGED <<st, hdr, conn, rl, ka, networkMap, neighbors, updateTime, dir,
                 peerMap, wsIn, connData, lastRead, crashed, kaVars, peersMap,
                 hcDue, wt, udpSent, wsSent, ret, calls, closeAt, rf, task,
                 fnVars>>

\* the STUN response of transaction tx arrives on its socket: runReadUDPLoop
\* hands it to runNATTraversalLoop, which reports the address saddr to the
\* peer through the peermap and forgets the transaction
StunResponse(tx, saddr) ==
  /\ Alive
  /\ task["natLoop"] = "run"
  /\ ~Done("stunChan")
  /\ tx \in stunTx
  /\ tx.conn \in udpLoops
  /\ conn[1] = "open"
  /\ InFlight(Sessions) < MaxInFlight
  /\ wsIn' = [wsIn EXCEPT ![1] =
                Append(@, AgentFrame(CONTROL_NAT_TRAVERSAL, tx.peerID,
                                     AddrBytes(saddr), AgentNonce))]
  /\ stunTx' = stunTx \ {tx}
  /\ UNCHANGED <<st, hdr, conn, rl, ka, networkMap, neighbors, updateTime, dir,
                 peerMap, wsOut, connData, inbound, lastRead, crashed, kaVars,
                 agVars, openConns, closeAt, rf, agFault, task, udpLoops,
                 fnVars>>

\* the two peers of the network
DiscoHeader(s) ==
  [net |-> "n1", id |-> IF s = 1 THEN AgentID ELSE AgentPeer, meta |-> NoMeta,
   neigh |-> {}, issued |-> 0]

NextDisco ==
  \/ \E s \in {1, 2} :
       \/ Connect(s, DiscoHeader(s))
       \/ Index(s)
       \/ UpgradeOK(s)
       \/ Start(s)
       \/ ReadMessage(s)
  \/ KeepState
  \/ AgentRecv(2)
  \/ \E tx \in stunTx, saddr \in Addrs : StunResponse(tx, saddr)
  \/ HandlePeerEvent

SpecDisco == Init /\ [][NextDisco]_vars

\* C11 (as claimed, the step it rests on): the agent's report of its public
\* address (code 3 of package peer) for a connected peer t reaches t as one
\* frame (3, sender, address) and puts nothing on the reporting agent's own
\* connection, so that the report starts no new discovery.
C11_AddressReportForwarded ==
  [][\A s \in Sessions : ReadStep(s) =>
        LET b == ReadFrame(s)
            t == getPeer(hdr[s].net, FrameAddr(b)) IN
        (/\ b[1] = CONTROL_NAT_TRAVERSAL
         /\ t # NoSession /\ conn[t] = "open")
        => /\ wsOut'[t] = Append(wsOut[t],
                 XorBytes(<<CONTROL_NAT_TRAVERSAL, Len(hdr[s].id)>> \o hdr[s].id
                            \o FrameData(b), NonceOf(t)))
           /\ wsOut'[s] = wsOut[s]]_vars

(***************************************************************************)
(* Properties of the healthcheck sweep (SpecAgent).                        *)
(***************************************************************************)
\* C12 (as claimed): the sweep runs every keepalive/2 + 1 s whatever events
\* arrive: the time the next sweep is due moves only when the sweep fires, and
\* then by one period.
C12_SweepEveryPeriod ==
  [][hcDue' # hcDue => (now = hcDue /\ hcDue' = hcDue + HealthcheckPeriod)]_vars

(***************************************************************************)
(* PeerPacketConn.Close against the agent's goroutines and a ReadFrom      *)
(* caller.  Close runs one statement at a time; the other goroutines run   *)
(* between its statements.                                                 *)
(***************************************************************************)
\* Close: ctxCancel, healthcheckTimer.Stop, close(stunChan), close(inbound),
\* close(peerEvent), wsConn.Close
Close ==
  /\ Alive
  /\ closeAt < Len(CloseSteps)
  /\ closeAt' = closeAt + 1
  /\ hcDue' = IF CloseSteps[closeAt + 1] = "timer" THEN Forever ELSE hcDue
  /\ UNCHANGED <<srvVars, kaVars, openConns, stunTx, rf, agFault, task, udpLoops,
                 peersMap, peerEvent, wt, udpSent, wsSent, ret, calls, nextConn,
                 fnVars>>

\* what lets the goroutine x return: ctx.Done() for the two selects, the
\* closed stunChan for runNATTraversalLoop, the closed WebSocket for keepState
ExitCause(x) ==
  IF x \in {"engine", "healthcheck"} THEN "ctx"
  ELSE IF x = "natLoop" THEN "stunChan"
  ELSE "wsConn"

TaskExit(x) ==
  /\ Alive
  /\ task[x] = "run"
  /\ Done(ExitCause(x))
  /\ task' = [task EXCEPT ![x] = "exited"]
  /\ UNCHANGED <<srvVars, kaVars, agVars, openConns, stunTx, closeAt, rf, agFault,
                 udpLoops, fnVars>>

\* runPeerEventEngine takes the zero PeerEvent from the closed, empty queue:
\* its Op is OP_PEER_DISCO1, so the timer is armed again (the context it
\* stores has the empty PeerID and no socket)
HandleZeroEvent ==
  /\ Alive
  /\ task["engine"] = "run"
  /\ Done("peerEvent")
  /\ peerEvent = <<>>
  /\ hcDue' = now + HealthcheckPeriod
  /\ UNCHANGED <<srvVars, kaVars, cxVars, peersMap, peerEvent, wt, udpSent, wsSent,
                 ret, calls, nextConn, fnVars>>

\* PeerPacketConn.getPeerID: the PeerIDs whose live context has address a
PeerIDsAt(a) ==
  {id \in PeerIDs : /\ peersMap[id].ok /\ peersMap[id].addr # NilAddr
                    /\ ~Stale(peersMap[id]) /\ peersMap[id].addr = a}

\* runReadUDPLoop reads a datagram p that is neither a ping nor STUN from
\* address a: 0, the length and bytes of getPeerID(a), p, sent to inbound
ReadDatagram(a, p) ==
  /\ Alive
  /\ \E c \in udpLoops : udpLoops' = LoopsAfter(c)
  /\ \E peerID \in (IF PeerIDsAt(a) = {} THEN {NoPeer} ELSE PeerIDsAt(a)) :
       SendInbound(<<0, PeerIDLen(peerID)>> \o peerID \o p)
  /\ UNCHANGED <<st, hdr, conn, rl, ka, networkMap, neighbors, updateTime, dir,
                 peerMap, wsIn, wsOut, connData, lastRead, crashed, kaVars, agVars,
                 openConns, stunTx, closeAt, rf, task, fnVars>>

\* ReadFrom, up to the receive: the select returns io.ErrClosedPipe when the
\* context is cancelled, otherwise the call goes on to <-c.inbound
ReadFromSelect ==
  /\ Alive
  /\ rf.pc \in {"idle", "returned"}
  /\ rf.k < MaxCalls
  /\ rf' = IF Done("ctx")
           THEN [pc |-> "returned", n |-> 0, addr |-> NoPeer,
                 err |-> "io.ErrClosedPipe", k |-> rf.k + 1]
           ELSE [pc |-> "blocked", n |-> 0, addr |-> NoPeer, err |-> "none",
                 k |-> rf.k + 1]
  /\ UNCHANGED <<srvVars, kaVars, agVars, openConns, stunTx, closeAt, agFault, task,
                 udpLoops, fnVars>>

\* ReadFrom, from the receive on: b := <-c.inbound is the next datagram, or
\* nil once the queue is closed and empty; then b[2 : b[1]+2] and the copy
ReadFromReceive ==
  /\ Alive
  /\ rf.pc = "blocked"
  /\ inbound[1] # <<>> \/ Done("inbound")
  /\ LET b == IF inbound[1] # <<>> THEN Head(inbound[1]) ELSE <<>> IN
     IF FramePanics(b)
     THEN /\ rf' = [rf EXCEPT !.pc = "panicked"]
          /\ agFault' = "index out of range"
     ELSE /\ rf' = [rf EXCEPT !.pc = "returned", !.n = Len(FrameData(b)),
                               !.addr = FrameAddr(b), !.err = "nil"]
          /\ agFault' = agFault
  /\ inbound' = [inbound EXCEPT ![1] = IF @ = <<>> THEN @ ELSE Tail(@)]
  /\ UNCHANGED <<st, hdr, conn, rl, ka, networkMap, neighbors, updateTime, dir,
                 peerMap, wsIn, wsOut, connData, lastRead, crashed, kaVars, agVars,
                 openConns, stunTx, closeAt, task, udpLoops, fnVars>>

NextClose ==
  \/ Close
  \/ \E x \in Tasks : TaskExit(x)
  \/ HandlePeerEvent
  \/ HandleZeroEvent
  \/ RequestSTUN(AgentPeer)
  \/ \E a \in Addrs : NatTraversal(AgentPeer, a)
  \/ \E a \in Addrs : ReadPing(AgentPeer, a)
  \/ \E a \in Addrs, p \in Payloads : ReadDatagram(a, p)
  \/ ReadFromSelect
  \/ ReadFromReceive

SpecClose == AgInit /\ [][NextClose]_vars

\* C13 (as claimed): a ReadFrom that is blocked on the empty inbound queue when
\* Close closes it returns io.ErrClosedPipe with n = 0.
C13_BlockedReadFromReturnsError ==
  [][(rf.pc = "blocked" /\ inbound[1] = <<>> /\ Done("inbound") /\ rf' # rf)
       => (rf'.pc = "returned" /\ rf'.err = "io.ErrClosedPipe" /\ rf'.n = 0)]_vars

\* C14 (as claimed): no goroutine of the agent sends on a queue that Close
\* has closed.
C14_NoSendOnClosedQueue == agFault # "send on closed channel"

(***************************************************************************)
(* The frame code || N || PeerID || payload through its parsers: the       *)
(* sending agent's writeTo, the server's target extraction and address     *)
(* rewrite, and the receiving agent's ReadFrom.                            *)
(***************************************************************************)
\* the longest PeerID whose length fits the length byte
MaxPeerIDLen == 255
FrameLens == {1, 2, MaxPeerIDLen - 2, MaxPeerIDLen - 1, MaxPeerIDLen}
FramePayloads == {<<>>, <<104, 105>>, <<0, 255>>}
FrameCodes == {CONTROL_RELAY, CONTROL_NEW_PEER_UDP_ADDR}
\* a PeerID of n bytes
LongID(n, v) == [i \in 1..n |-> v]

\* no frame assembled yet
NoFrame == [stage |-> "none", fault |-> FALSE, id |-> NoPeer, data |-> <<>>, b |-> <<>>]

FrameInit ==
  /\ Quiet
  /\ arg \in [code : FrameCodes, tgt : {LongID(n, 98) : n \in FrameLens},
              src : {LongID(n, 97) : n \in FrameLens}, p : FramePayloads]
  /\ res = NoFrame
  /\ lim = NoLimiter
  /\ ExIdle

fnUnchanged == UNCHANGED <<srvVars, kaVars, agVars, cxVars, arg, lim, exVars>>

\* PeerPacketConn.writeTo of the sender, as the server has it after its XOR
FrameAssemble ==
  /\ res.stage = "none"
  /\ res' = [NoFrame EXCEPT !.stage = "frame",
                            !.b = XorBytes(AgentFrame(arg.code, arg.tgt, arg.p,
                                                      AgentNonce), AgentNonce)]
  /\ fnUnchanged

\* readMessageLoop: tgtPeerID := b[2 : b[1]+2], data := b[b[1]+2:]
FrameServerParse ==
  /\ res.stage = "frame"
  /\ res' = IF FramePanics(res.b)
            THEN [res EXCEPT !.stage = "target", !.fault = TRUE]
            ELSE [res EXCEPT !.stage = "target", !.id = FrameAddr(res.b),
                             !.data = FrameData(res.b)]
  /\ fnUnchanged

\* readMessageLoop, default case: the frame rewritten with the sender's PeerID
FrameServerRewrite ==
  /\ res.stage = "target" /\ ~res.fault
  /\ res' = IF ForwardPanics(arg.src)
            THEN [res EXCEPT !.stage = "forwarded", !.fault = TRUE]
            ELSE [res EXCEPT !.stage = "forwarded",
                             !.b = ForwardFrame(res.b, arg.src)]
  /\ fnUnchanged

\* ReadFrom (and requestSTUN, natTraversal) of the receiver:
\* b[2 : b[1]+2] and b[b[1]+2:]
FrameAgentParse ==
  /\ res.stage = "forwarded" /\ ~res.fault
  /\ res' = IF FramePanics(res.b)
            THEN [res EXCEPT !.stage = "read", !.fault = TRUE]
            ELSE [res EXCEPT !.stage = "read", !.id = FrameAddr(res.b),
                             !.data = FrameData(res.b)]
  /\ fnUnchanged

NextFrame ==
  \/ FrameAssemble
  \/ FrameServerParse
  \/ FrameServerRewrite
  \/ FrameAgentParse

SpecFrame == FrameInit /\ [][NextFrame]_vars

\* C15 (as claimed): for every PeerID of 1..255 bytes and every payload no
\* parser faults, the server extracts the target PeerID and the payload of
\* the frame the sender assembled, and the receiver reads the sender's PeerID
\* and the payload from the frame the server rewrote.
C15_FrameRoundTrip ==
  /\ ~res.fault
  /\ res.stage = "target" => (res.id = arg.tgt /\ res.data = arg.p)
  /\ res.stage = "read" => (res.id = arg.src /\ res.data = arg.p)

(***************************************************************************)
(* Malformed frames: two started sessions of one network, whose agents     *)
(* and whose server put arbitrary binary messages on the connections.      *)
(***************************************************************************)
\* empty, a single byte, shorter than 2 + N, and a whole RELAY frame
RawFrames == {<<>>, <<0>>, <<0, 2, 98>>, <<0, 2, 98, 99, 104>>}

\* shorter than 2 + N, N its length byte
Malformed(b) == IF Len(b) < 2 THEN TRUE ELSE Len(b) < 2 + b[2]

\* the client of session s writes the binary message b
AgentSendRaw(s, b) ==
  /\ ~crashed
  /\ conn[s] = "open"
  /\ InFlight(Sessions) < MaxInFlight
  /\ wsIn' = [wsIn EXCEPT ![s] = Append(@, XorBytes(b, NonceOf(s)))]
  /\ UNCHANGED <<st, hdr, conn, rl, ka, networkMap, neighbors, updateTime, dir,
                 peerMap, wsOut, connData, inbound, lastRead, crashed, kaVars,
                 agVars, cxVars, fnVars>>

\* the agent's connection delivers the binary message b
PeermapSendRaw(b) ==
  /\ conn[1] = "open"
  /\ wsOut[1] = <<>> /\ inbound[1] = <<>>
  /\ wsOut' = [wsOut EXCEPT ![1] = Append(@, XorBytes(b, AgentNonce))]
  /\ UNCHANGED <<st, hdr, conn, rl, ka, networkMap, neighbors, updateTime, dir,
                 peerMap, wsIn, connData, inbound, lastRead, crashed, kaVars,
                 agVars, cxVars, fnVars>>

MalformedHeader(s) ==
  [net |-> "n1", id |-> IF s = 1 THEN AgentID ELSE AgentPeer, meta |-> NoMeta,
   neigh |-> {}, issued |-> 0]

\* sessions 1 and 2 after HandlePeerPacketConnect returned
MalformedInit ==
  /\ st = [s \in Sessions |-> IF s \in {1, 2} THEN "started" ELSE "new"]
  /\ hdr = [s \in Sessions |-> IF s \in {1, 2} THEN MalformedHeader(s) ELSE NoHeader]
  /\ conn = [s \in Sessions |-> IF s \in {1, 2} THEN "open" ELSE "nil"]
  /\ rl = [s \in Sessions |-> IF s \in {1, 2} THEN "run" ELSE "off"]
  /\ ka = [s \in Sessions |-> IF s \in {1, 2} THEN "run" ELSE "off"]
  /\ networkMap = {"n1"}
  /\ neighbors = [n \in Networks |-> {}]
  /\ updateTime = [n \in Networks |-> 0]
  /\ dir = [n \in Networks |->
              IF n = "n1"
              THEN SetIfAbsent(SetIfAbsent(EmptyDir, AgentID, 1), AgentPeer, 2)
              ELSE EmptyDir]
  /\ peerMap = [id \in PeerIDs |-> IF id \in {AgentID, AgentPeer} THEN "n1" ELSE NoNet]
  /\ wsIn = [s \in Sessions |-> <<>>]
  /\ wsOut = [s \in Sessions |-> <<>>]
  /\ connData = [s \in Sessions |-> <<>>]
  /\ inbound = [s \in Sessions |-> <<>>]
  /\ lastRead = [s \in Sessions |-> NoRead]
  /\ crashed = FALSE
  /\ now = 0
  /\ cfg = DefaultConfig
  /\ activeTime = [s \in Sessions |-> 0]
  /\ nextTick = [s \in Sessions |-> KeepalivePeriod]
  /\ deadline = [s \in Sessions |-> Forever]
  /\ kaSent = [s \in Sessions |-> 0]
  /\ AgentIdle
  /\ FnIdle

NextMalformed ==
  \/ \E s \in {1, 2}, b \in RawFrames : AgentSendRaw(s, b)
  \/ \E s \in {1, 2} : ReadMessage(s)
  \/ AgentRecv(2)
  \/ \E b \in RawFrames : PeermapSendRaw(b)
  \/ KeepState
  \/ ReadFromSelect
  \/ ReadFromReceive

SpecMalformed == MalformedInit /\ [][NextMalformed]_vars

\* the agent takes a message off its connection or a datagram off inbound
AgentTakes(b) ==
  \/ /\ wsOut[1] # <<>> /\ wsOut'[1] = Tail(wsOut[1])
     /\ b = XorBytes(Head(wsOut[1]), AgentNonce)
  \/ /\ inbound[1] # <<>> /\ inbound'[1] = Tail(inbound[1])
     /\ b = Head(inbound[1])

\* C16 (as claimed): a malformed frame is dropped by its receiver.  The server
\* forwards nothing, changes no directory and its read loop goes on; the
\* agent delivers nothing to a reader and goes on.
C16_MalformedDropped ==
  [][/\ \A s \in Sessions :
          (ReadStep(s) /\ Malformed(ReadFrame(s)))
          => (~crashed' /\ rl'[s] = "run" /\ wsOut' = wsOut /\ dir' = dir)
     /\ \A b \in RawFrames :
          (Malformed(b) /\ AgentTakes(b))
          => (agFault' = "none" /\ rf'.pc # "panicked" /\ peersMap' = peersMap
              /\ (rf' # rf => rf'.pc = "blocked"))]_vars

(***************************************************************************)
(* The data limiter of a network: readMessageLoop calls                    *)
(* ratelimiter.WaitN(context.Background(), len(b)) for every frame that is *)
(* not a discovery frame and ignores what it returns.  Time is counted in  *)
(* ticks of 1/limit second, the time the limiter takes to earn one token,  *)
(* so that one second is limit ticks.                                      *)
(***************************************************************************)
MaxBurst == 3
MaxFrame == 4
MaxReads == 3
MaxTicks == 4

\* rate_limiter: {limit, burst} that Config accepts with a limiter in use
LimiterConfigs ==
  {c \in [limit : 1..2, burst : 1..MaxBurst] : c.burst >= c.limit}

LimSessions == {1, 2}
NoWait == [n |-> 0, at |-> 0]

\* rate.NewLimiter(limit, burst): a full bucket
LimiterInit ==
  /\ Quiet
  /\ arg = NoArg
  /\ res = NoArg
  /\ ExIdle
  /\ \E c \in LimiterConfigs :
       lim = [limit |-> c.limit, burst |-> c.burst, tokens |-> c.burst, last |-> 0,
              t |-> 0, passed |-> [i \in 1..(c.limit + 1) |-> 0],
              wait |-> [s \in LimSessions |-> NoWait], reads |-> 0]

limUnchanged == UNCHANGED <<srvVars, kaVars, agVars, cxVars, arg, res, exVars>>

Min(a, b) == IF a < b THEN a ELSE b

\* n bytes go on to the dispatch of the frame at the current tick
Passed(l, n) == [l EXCEPT !.passed[1] = @ + n]

\* WaitN(ctx, n) as readMessageLoop uses it: an n above the burst is refused
\* at once with an error, which the caller ignores; otherwise n tokens are
\* reserved and the caller sleeps until the bucket has earned them
WaitN(l, s, n) ==
  IF n > l.burst THEN Passed(l, n)
  ELSE LET tokens == Min(l.burst, l.tokens + (l.t - l.last)) - n
           r == [l EXCEPT !.tokens = tokens, !.last = l.t] IN
       IF tokens >= 0 THEN Passed(r, n)
       ELSE [r EXCEPT !.wait[s] = [n |-> n, at |-> l.t - tokens]]

\* session s reads a frame of n bytes that is not a discovery frame
LimRead(s, n) ==
  /\ lim.wait[s] = NoWait
  /\ lim.reads < MaxReads
  /\ lim' = [WaitN(lim, s, n) EXCEPT !.reads = @ + 1]
  /\ limUnchanged

\* the sleep of WaitN ends and the frame of session s is dispatched
LimWake(s) ==
  /\ lim.wait[s] # NoWait
  /\ lim.wait[s].at = lim.t
  /\ lim' = [Passed(lim, lim.wait[s].n) EXCEPT !.wait[s] = NoWait]
  /\ limUnchanged

\* one tick passes; nobody sleeps past the end of the wait
LimTick ==
  /\ lim.t < MaxTicks
  /\ \A s \in LimSessions : lim.wait[s] # NoWait => lim.wait[s].at > lim.t
  /\ lim' = [lim EXCEPT !.t = @ + 1,
                        !.passed = <<0>> \o SubSeq(@, 1, Len(@) - 1)]
  /\ limUnchanged

NextLimiter ==
  \/ \E s \in LimSessions, n \in 1..MaxFrame : LimRead(s, n)
  \/ \E s \in LimSessions : LimWake(s)
  \/ LimTick

SpecLimiter == LimiterInit /\ [][NextLimiter]_vars

RECURSIVE SumSeq(_)
SumSeq(q) == IF q = <<>> THEN 0 ELSE Head(q) + SumSeq(Tail(q))

\* C17 (as claimed): the bytes of non-discovery frames dispatched for the
\* network in any window of one second are at most burst + limit, whatever the
\* size of the frames.
C17_WindowWithinBudget == SumSeq(lim.passed) <= lim.burst + lim.limit

(***************************************************************************)
(* Order of the frames on a connection (SpecRelay).                        *)
(***************************************************************************)
\* q2 is q with frames written after it
Extends(q, q2) == Len(q2) >= Len(q) /\ SubSeq(q2, 1, Len(q)) = q

\* C18 (as claimed): every RELAY frame read from a session s whose target
\* resolves to a session t that has not closed its connection is written to
\* t's connection once, whole and behind everything written before, and no
\* step takes a frame off a connection except its receiver reading the first.
C18_RelayInOrder ==
  [][\A t \in Sessions :
        /\ \A s \in Sessions :
             (/\ ReadStep(s)
              /\ ReadFrame(s)[1] = CONTROL_RELAY
              /\ getPeer(hdr[s].net, FrameAddr(ReadFrame(s))) = t
              /\ conn[t] # "closed")
             => wsOut'[t] = Append(wsOut[t],
                    XorBytes(<<CONTROL_RELAY, Len(hdr[s].id)>> \o hdr[s].id
                               \o FrameData(ReadFrame(s)), NonceOf(t)))
        /\ wsOut'[t] # wsOut[t] =>
             (Extends(wsOut[t], wsOut'[t]) \/ wsOut'[t] = Tail(wsOut[t]))]_vars

(***************************************************************************)
(* NATType.AccurateThan on every pair of the seven NATType values.         *)
(***************************************************************************)
Unknown == ""
Hard == "hard"
Easy == "easy"
UPnP == "upnp"
IP4 == "ip4"
IP6 == "ip6"
Internal == "internal"
NATTypes == {Unknown, Hard, Easy, UPnP, IP4, IP6, Internal}

\* func (t NATType) AccurateThan(t1 NATType) bool
AccurateThan(t, t1) ==
  IF t = Unknown THEN FALSE
  ELSE IF t = t1 THEN FALSE
  ELSE IF t = Easy /\ t1 # Unknown THEN FALSE
  ELSE IF t = Hard /\ t1 \notin {Unknown, Easy} THEN FALSE
  ELSE TRUE

\* no call made yet on the pair
NotCalled == [done |-> {}, fwd |-> FALSE, rev |-> FALSE]

NATInit ==
  /\ Quiet
  /\ arg \in [t : NATTypes, t1 : NATTypes]
  /\ res = NotCalled
  /\ lim = NoLimiter
  /\ ExIdle

\* t.AccurateThan(t1)
CallForward ==
  /\ "fwd" \notin res.done
  /\ res' = [res EXCEPT !.done = @ \cup {"fwd"}, !.fwd = AccurateThan(arg.t, arg.t1)]
  /\ fnUnchanged

\* t1.AccurateThan(t)
CallReverse ==
  /\ "rev" \notin res.done
  /\ res' = [res EXCEPT !.done = @ \cup {"rev"}, !.rev = AccurateThan(arg.t1, arg.t)]
  /\ fnUnchanged

NextNAT == CallForward \/ CallReverse

SpecNAT == NATInit /\ [][NextNAT]_vars

\* C19 (as claimed): t.AccurateThan(t1) iff t is strictly above t1 in
\* unknown < easy < {hard, upnp, ip4, ip6, internal}; hence never both
\* t.AccurateThan(t1) and t1.AccurateThan(t).
C19_AccurateThanStrictOrder ==
  LET rank(x) == IF x = Unknown THEN 0 ELSE IF x = Easy THEN 1 ELSE 2 IN
  /\ "fwd" \in res.done => (res.fwd <=> rank(arg.t) > rank(arg.t1))
  /\ "rev" \in res.done => (res.rev <=> rank(arg.t1) > rank(arg.t))
  /\ res.done = {"fwd", "rev"} => ~(res.fwd /\ res.rev)

(***************************************************************************)
(* Properties of the hole-punch sockets (SpecAgent).                       *)
(***************************************************************************)
\* the sockets carried by the OP_PEER_DISCO1 events still in the queue
QueuedConns ==
  {peerEvent[i].conn : i \in {j \in 1..Len(peerEvent) : peerEvent[j].op = OP_PEER_DISCO1}}
\* the sockets of the peer contexts
HeldConns == {peersMap[id].conn : id \in {x \in PeerIDs : peersMap[x].ok}}

\* the engine handles the OP_PEER_DISCO1 event at the head of the queue
Disco1Step ==
  /\ peerEvent # <<>>
  /\ Head(peerEvent).op = OP_PEER_DISCO1
  /\ peerEvent' = Tail(peerEvent)

\* C20: every open hole-punch socket is carried by exactly one queued
\* OP_PEER_DISCO1 event or is the socket of exactly one peer context, and none
\* by both; an OP_PEER_DISCO1 for a peer that has a context closes the old
\* socket and installs the new one with the address the old context had.
C20_SocketsReferenced ==
  /\ [](/\ openConns = QueuedConns \cup HeldConns
        /\ QueuedConns \cap HeldConns = {}
        /\ \A i, j \in 1..Len(peerEvent) :
             (/\ peerEvent[i].op = OP_PEER_DISCO1 /\ peerEvent[j].op = OP_PEER_DISCO1
              /\ peerEvent[i].conn = peerEvent[j].conn) => i = j
        /\ \A x, y \in PeerIDs :
             (peersMap[x].ok /\ peersMap[y].ok /\ peersMap[x].conn = peersMap[y].conn)
             => x = y)
  /\ [][Disco1Step =>
          LET e == Head(peerEvent) IN
          /\ peersMap'[e.peerID].ok /\ peersMap'[e.peerID].conn = e.conn
          /\ peersMap[e.peerID].ok =>
               /\ peersMap[e.peerID].conn \notin openConns'
               /\ peersMap'[e.peerID].addr = peersMap[e.peerID].addr]_vars

\* a second OP_PEER_DISCO1 replaced the context of a peer whose address was
\* known: the new socket is the only one open
C20_Witness ==
  /\ nextConn > 1
  /\ peersMap[AgentPeer].ok
  /\ peersMap[AgentPeer].conn = nextConn
  /\ peersMap[AgentPeer].addr # NilAddr
  /\ openConns = {nextConn}

(***************************************************************************)
(* Disco.NewPing and Disco.ParsePing under every configuration of          *)
(* Disco.Magic.                                                            *)
(***************************************************************************)
\* []byte("_ping")
DefaultMagic == <<95, 112, 105, 110, 103>>

\* Disco.Magic: nil, or a function and the slice it returns
NilMagic == [set |-> FALSE, val |-> <<>>]
Magics ==
  {NilMagic, [set |-> TRUE, val |-> <<>>], [set |-> TRUE, val |-> <<120>>],
   [set |-> TRUE, val |-> <<95, 112>>]}

\* Disco.magic
magic(d) ==
  LET m == IF d.set THEN d.val ELSE <<>> IN
  IF Len(m) = 0 THEN DefaultMagic ELSE m

\* Disco.NewPing: slices.Concat(d.magic(), peerID.Bytes())
NewPing(d, peerID) == magic(d) \o peerID

\* a ParsePing that returns the datagram whole
ParsePingWhole(d, b) ==
  LET m == magic(d) IN
  IF Len(b) <= Len(m) \/ Len(b) > 255 + Len(m) THEN <<>>
  ELSE IF m = Slice(b, 0, Len(m)) THEN b
  ELSE <<>>
\* Disco.ParsePing
ParsePing(d, b) ==
  LET m == magic(d) IN
  IF Len(b) <= Len(m) \/ Len(b) > 255 + Len(m) THEN <<>>
  ELSE IF m = Slice(b, 0, Len(m)) THEN Slice(b, Len(m), Len(b))
  ELSE <<>>

\* PeerIDs of 1, 2 and 255 bytes, and one that reads like a magic
PingIDs == {LongID(1, 97), LongID(2, 97), LongID(MaxPeerIDLen, 97), DefaultMagic}

\* datagrams: empty, a magic alone, a magic cut short, a magic with a PeerID,
\* another prefix, and magics with 255 and 256 bytes behind them
PingInputs ==
  {<<>>, <<120>>, <<95, 112>>, DefaultMagic, <<95, 112, 105, 110>>,
   DefaultMagic \o <<97>>, <<120, 97>>, <<121, 97>>,
   DefaultMagic \o LongID(MaxPeerIDLen + 1, 97), <<120>> \o LongID(MaxPeerIDLen + 1, 97),
   <<120>> \o LongID(MaxPeerIDLen, 97), <<95, 112>> \o LongID(MaxPeerIDLen + 1, 97)}

NoPing == [done |-> {}, ping |-> <<>>, parsed |-> <<>>, raw |-> <<>>]

PingInit ==
  /\ Quiet
  /\ arg \in [d : Magics, id : PingIDs, b : PingInputs]
  /\ res = NoPing
  /\ lim = NoLimiter
  /\ ExIdle

\* d.NewPing(id)
CallNewPing ==
  /\ "new" \notin res.done
  /\ res' = [res EXCEPT !.done = @ \cup {"new"}, !.ping = NewPing(arg.d, arg.id)]
  /\ fnUnchanged

\* d.ParsePing on the ping NewPing made
CallParsePing ==
  /\ "new" \in res.done /\ "parse" \notin res.done
  /\ res' = [res EXCEPT !.done = @ \cup {"parse"}, !.parsed = ParsePing(arg.d, res.ping)]
  /\ fnUnchanged

\* d.ParsePing on a datagram off the socket
CallParseInput ==
  /\ "input" \notin res.done
  /\ res' = [res EXCEPT !.done = @ \cup {"input"}, !.raw = ParsePing(arg.d, arg.b)]
  /\ fnUnchanged

NextPing == CallNewPing \/ CallParsePing \/ CallParseInput

SpecPing == PingInit /\ [][NextPing]_vars

\* b starts with the bytes m
StartsWith(b, m) == Len(b) >= Len(m) /\ SubSeq(b, 1, Len(m)) = m

\* C21: ParsePing(NewPing(id)) = id for PeerIDs of 1..255 bytes under every
\* configured magic; ParsePing returns the empty PeerID for an input that does
\* not start with the magic, is the magic alone, or is longer than 255 + |magic|;
\* with Magic nil or returning an empty slice the magic of both is "_ping".
C21_PingRoundTrip ==
  LET m == IF arg.d.set /\ arg.d.val # <<>> THEN arg.d.val ELSE DefaultMagic IN
  /\ "new" \in res.done => res.ping = m \o arg.id
  /\ "parse" \in res.done => res.parsed = arg.id
  /\ "input" \in res.done =>
       /\ (~StartsWith(arg.b, m) \/ arg.b = m \/ Len(arg.b) > 255 + Len(m))
            => res.raw = <<>>
       /\ (StartsWith(arg.b, m) /\ arg.b # m /\ Len(arg.b) <= 255 + Len(m))
            => m \o res.raw = arg.b

\* a 255-byte PeerID came back from its ping under a configured magic, and a
\* datagram of 256 bytes behind that magic was refused
C21_Witness ==
  /\ res.done = {"new", "parse", "input"}
  /\ arg.d.set /\ arg.d.val = <<120>>
  /\ Len(arg.id) = MaxPeerIDLen /\ res.parsed = arg.id
  /\ Len(arg.b) = MaxPeerIDLen + 2 /\ res.raw = <<>>

(***************************************************************************)
(* LEAD_DISCO (SpecRelay).                                                 *)
(***************************************************************************)
\* json.Marshal(pm.cfg.STUNs) for stuns: ["s:1"], the list requestSTUN decodes
STUNsJSON == <<91, 34, 115, 58, 49, 34, 93>>

\* the code-1 frame that names the session with header h and carries payload p,
\* as t's connection carries it
PreNATFrame(h, p, t) ==
  XorBytes(<<CONTROL_PRE_NAT_TRAVERSAL, Len(h.id)>> \o h.id \o p, NonceOf(t))

\* C22 (as claimed): a LEAD_DISCO frame read from session src for a target that
\* resolves to a connected session tgt puts one code-1 frame naming src on
\* tgt's connection and one naming tgt on src's, each with the STUN server
\* list as payload, whatever the silenceMode of either, and nothing else.
C22_LeadDiscoCarriesSTUNs ==
  [][\A src, tgt \in Sessions :
        (/\ ReadStep(src)
         /\ ReadFrame(src)[1] = CONTROL_LEAD_DISCO
         /\ getPeer(hdr[src].net, FrameAddr(ReadFrame(src))) = tgt
         /\ tgt # src /\ conn[tgt] = "open" /\ conn[src] = "open")
        => /\ wsOut'[tgt] = Append(wsOut[tgt], PreNATFrame(hdr[src], STUNsJSON, tgt))
           /\ wsOut'[src] = Append(wsOut[src], PreNATFrame(hdr[tgt], STUNsJSON, src))
           /\ \A x \in Sessions \ {src, tgt} : wsOut'[x] = wsOut[x]]_vars

(***************************************************************************)
(* The in-band stream: CONTROL_CONN frames from the peer of a session, the *)
(* session's connData queue and Peer.Read.                                  *)
(***************************************************************************)
MaxStream == 4     \* bytes Peer.Read returns before the peer stops writing

\* Peer.Write's framing: the code byte followed directly by the data
ConnFrame(data) == <<CONTROL_CONN>> \o data

\* data whose first bytes read as the length and bytes of a registered PeerID,
\* of an unregistered one, of the empty one; data that ends inside the
\* address field it is taken to start; and no data
ConnPayloads == {<<1, 97, 120>>, <<1, 122, 120>>, <<0>>, <<104, 105>>, <<>>}

\* len(b) of the buffers handed to Peer.Read
ReadBufs == {2, 8}

\* Peer.Read(b) with len(b) = n: what is left of the last message first, then
\* the next message of connData; the call blocks while there is neither
PeerRead(s, n) ==
  /\ ~crashed
  /\ IF connBuf[s] # <<>>
     THEN LET k == Min(n, Len(connBuf[s])) IN
          /\ readOut' = [readOut EXCEPT ![s] = @ \o SubSeq(connBuf[s], 1, k)]
          /\ connBuf' = [connBuf EXCEPT ![s] = SubSeq(@, k + 1, Len(@))]
          /\ UNCHANGED connData
     ELSE /\ connData[s] # <<>>
          /\ LET wsb == Head(connData[s])
                 k == Min(n, Len(wsb)) IN
             /\ readOut' = [readOut EXCEPT ![s] = @ \o SubSeq(wsb, 1, k)]
             /\ connBuf' = [connBuf EXCEPT ![s] = SubSeq(wsb, k + 1, Len(wsb))]
          /\ connData' = [connData EXCEPT ![s] = Tail(@)]
  /\ UNCHANGED <<st, hdr, conn, rl, ka, networkMap, neighbors, updateTime, dir,
                 peerMap, wsIn, wsOut, inbound, lastRead, crashed, kaVars, agVars,
                 cxVars, arg, res, lim, nt, stunChan, coVars>>

\* the peer of session s writes data to the in-band stream
ConnSend(s, data) ==
  /\ Len(connData[s]) < MaxQueue
  /\ Len(readOut[s]) < MaxStream
  /\ AgentSendRaw(s, ConnFrame(data))

NextConn ==
  \E s \in {1, 2} :
    \/ \E data \in ConnPayloads : ConnSend(s, data)
    \/ ReadMessage(s)
    \/ \E n \in ReadBufs : PeerRead(s, n)

SpecConn == MalformedInit /\ [][NextConn]_vars

RECURSIVE Flatten(_)
Flatten(q) == IF q = <<>> THEN <<>> ELSE Head(q) \o Flatten(Tail(q))

\* the in-band bytes of session s: returned by Peer.Read, left over from the
\* last message, and queued
Stream(s) == readOut[s] \o connBuf[s] \o Flatten(connData[s])

\* C23 (as claimed): every CONTROL_CONN frame the server reads from the peer
\* of a session is queued on that session's connData whatever its bytes are,
\* as the bytes behind the code, and Peer.Read returns the queued bytes in
\* arrival order: no other step adds to or takes from the stream.
C23_ConnDataDelivered ==
  [][\A s \in Sessions :
        IF ReadStep(s) /\ ReadFrame(s)[1] = CONTROL_CONN
        THEN /\ ~crashed'
             /\ connData'[s] = Append(connData[s], Tail(ReadFrame(s)))
             /\ Stream(s)' = Stream(s) \o Tail(ReadFrame(s))
        ELSE Stream(s)' = Stream(s)]_vars

(***************************************************************************)
(* Punch-through: natTraversal's ping loop beside the event consumer, the  *)
(* healthcheck sweep, the peer's pings and Close.  Intervals and the time   *)
(* the loop wakes are in milliseconds; an iteration runs within the second *)
(* of the clock in which its Sleep ends.                                   *)
(***************************************************************************)
ShortInterval == 300                           \* 300 * time.Millisecond
KeepaliveMs == PeerKeepaliveInterval * 1000    \* c.node.peerKeepaliveInterval
EscalateAt == 24                               \* i >= 24
MaxStart == 1                                  \* the latest second a control arrives
LastPing == 2                                  \* the second the peer's pings end

\* []byte("_ping" + c.peerID)
PingDatagram == DefaultMagic \o AgentID

\* natTraversal up to its loop: OP_PEER_DISCO2 with the resolved address
NatTraversalStart(peerID, addr) ==
  /\ Alive
  /\ task["keepState"] = "run"
  /\ nt.pc = "idle"
  /\ now <= MaxStart
  /\ SendPeerEvent(peerEvent, Event(OP_PEER_DISCO2, peerID, addr, NoConn))
  /\ nt' = [NoLoop EXCEPT !.pc = "loop", !.peerID = peerID, !.addr = addr,
                           !.interval = ShortInterval, !.wake = now * 1000]
  /\ UNCHANGED <<srvVars, kaVars, openConns, stunTx, closeAt, rf, task, udpLoops,
                 peersMap, hcDue, wt, udpSent, wsSent, ret, calls, nextConn,
                 arg, res, lim, rdVars, stunChan, coVars>>

\* one iteration of natTraversal's loop, from the select to the end of Sleep;
\* wrote is the datagram its writeToUDP put on the peer's socket, if any
NatIterate ==
  /\ Alive
  /\ nt.pc = "loop"
  /\ nt.wake < (now + 1) * 1000
  /\ IF Done("ctx")
     THEN nt' = [nt EXCEPT !.pc = "returned", !.wrote = NoDatagram]
     ELSE LET peerDiscovered == PeerIDsAt(nt.addr) # {}
              interval == IF peerDiscovered \/ nt.i >= EscalateAt
                          THEN KeepaliveMs ELSE nt.interval
              peerCtx == peersMap[nt.peerID] IN
          IF nt.interval = KeepaliveMs /\ ~peerDiscovered
          THEN nt' = [nt EXCEPT !.pc = "broke", !.wrote = NoDatagram]
          ELSE nt' = [nt EXCEPT !.i = @ + 1, !.interval = interval,
                                !.wake = @ + interval,
                                !.wrote = IF peerCtx.ok /\ peerCtx.addr # NilAddr
                                          THEN [conn |-> peerCtx.conn,
                                                addr |-> peerCtx.addr,
                                                data |-> PingDatagram]
                                          ELSE NoDatagram]
  /\ UNCHANGED <<srvVars, kaVars, agVars, cxVars, arg, res, lim, rdVars, stunChan, coVars>>

\* the one PRE_NAT_TRAVERSAL control for the peer
PreNATTraversal(peerID) == nextConn = 0 /\ now <= MaxStart /\ RequestSTUN(peerID)

\* a ping of the peer, which falls silent after a while
PeerPing(peerID, addr) == now <= LastPing /\ ReadPing(peerID, addr)

\* Close, its first statement: c.ctxCancel()
CtxCancel == closeAt = 0 /\ Close

NextPunch ==
  \/ Advance
  \/ HandlePeerEvent
  \/ PreNATTraversal(AgentPeer)
  \/ \E addr \in Addrs : NatTraversalStart(AgentPeer, addr)
  \/ NatIterate
  \/ \E addr \in Addrs : PeerPing(AgentPeer, addr)
  \/ HealthcheckFire
  \/ CtxCancel

SpecPunch == AgInit /\ [][NextPunch]_vars

\* an iteration of the loop that went on to its Sleep
IterationStep == nt.pc = "loop" /\ nt'.pc = "loop" /\ nt'.i = nt.i + 1

\* C24 (as claimed): every iteration of the punch-through loop for peer P
\* sends one ping "_ping" + own PeerID; the interval is the short one until P
\* is confirmed or the index reaches 24 and the keepalive interval from then
\* on; the loop ends only when the agent is closed.
C24_PingsUntilClosed ==
  [][/\ IterationStep =>
          /\ nt'.wrote.data = PingDatagram
          /\ nt'.interval = IF \/ peerConnected(nt.peerID)
                               \/ nt.i >= 24
                               \/ nt.interval = KeepaliveMs
                            THEN KeepaliveMs ELSE ShortInterval
     /\ (nt.pc = "loop" /\ nt'.pc # "loop") => Done("ctx")]_vars

(***************************************************************************)
(* Confirmation: the agent of SpecAgent with pings that name the peer      *)
(* arriving from the peer's public address and from another address.       *)
(***************************************************************************)
\* the source addresses of the datagrams runReadUDPLoop reads
PingSources == Addrs \cup {"10.0.0.9:9"}

NextConfirm ==
  \/ Advance
  \/ HandlePeerEvent
  \/ RequestSTUN(AgentPeer)
  \/ \E addr \in Addrs : NatTraversal(AgentPeer, addr)
  \/ \E peerAddr \in PingSources : ReadPing(AgentPeer, peerAddr)
  \/ HealthcheckFire
  \/ \E p \in Payloads : WriteToCheck(AgentPeer, p)
  \/ WriteToUDP

SpecConfirm == AgInit /\ [][NextConfirm]_vars

\* the engine handles the OP_PEER_CONFIRM event at the head of the queue
ConfirmStep ==
  /\ peerEvent # <<>>
  /\ Head(peerEvent).op = OP_PEER_CONFIRM
  /\ peerEvent' = Tail(peerEvent)

\* C25 (as claimed): the last-valid time of a peer's context moves forward
\* only when a ping with that peer's ID from the address stored for the peer
\* is handled; a ping with the peer's ID from any other address changes
\* neither the last-valid time nor the stored address.
C25_ConfirmOnlyFromStoredAddr ==
  [][/\ \A id \in PeerIDs :
          (peersMap'[id].ok /\ peersMap'[id].lastValid > peersMap[id].lastValid)
          => /\ ConfirmStep
             /\ Head(peerEvent).peerID = id
             /\ Head(peerEvent).addr = peersMap[id].addr
     /\ ConfirmStep =>
          LET e == Head(peerEvent) IN
          (peersMap[e.peerID].ok /\ e.addr # peersMap[e.peerID].addr)
          => peersMap'[e.peerID] = peersMap[e.peerID]]_vars

(***************************************************************************)
(* The STUN transaction table: requestSTUN adds a transaction,             *)
(* runReadUDPLoop passes every STUN packet to stunChan, and                *)
(* runNATTraversalLoop parses it.  The STUN servers answer or do not.      *)
(***************************************************************************)
\* the transactions requestSTUN can have opened
AllTx == [peerID : {AgentPeer}, conn : 1..MaxConns]

\* what stun.ParseResponse makes of a packet that stun.Is accepts: an error,
\* or a transaction ID and an address, which may not be valid
StunPackets ==
  [kind : {"response"}, tx : AllTx, saddr : Addrs \cup {NilAddr}]
    \cup [kind : {"invalid"}, tx : {CHOOSE tx \in AllTx : TRUE}, saddr : {NilAddr}]

\* runReadUDPLoop on socket c reads a STUN packet: c.stunChan <- b
StunArrive(c, r) ==
  /\ Alive
  /\ c \in udpLoops
  /\ udpLoops' = LoopsAfter(c)
  /\ IF Done("stunChan")
     THEN agFault' = "send on closed channel" /\ UNCHANGED stunChan
     ELSE /\ Len(stunChan) < MaxQueue
          /\ stunChan' = Append(stunChan, r)
          /\ agFault' = agFault
  /\ UNCHANGED <<srvVars, kaVars, agVars, openConns, stunTx, closeAt, rf, task,
                 arg, res, lim, rdVars, nt, coVars>>

\* the packet is the valid response of a transaction in the table
Answers(r) == r.kind = "response" /\ r.tx \in stunTx /\ r.saddr # NilAddr

\* runNATTraversalLoop, one iteration: the address of a valid response is
\* written to the peer through the peermap and the transaction is removed;
\* any other packet is skipped
NatTraversalLoop ==
  /\ Alive
  /\ task["natLoop"] = "run"
  /\ ~Done("ctx")
  /\ stunChan # <<>>
  /\ LET r == Head(stunChan) IN
     IF Answers(r)
     THEN /\ wsSent' = Append(wsSent, AgentFrame(CONTROL_NAT_TRAVERSAL, r.tx.peerID,
                                                 AddrBytes(r.saddr), AgentNonce))
          /\ stunTx' = stunTx \ {r.tx}
     ELSE UNCHANGED <<wsSent, stunTx>>
  /\ stunChan' = Tail(stunChan)
  /\ UNCHANGED <<srvVars, kaVars, peersMap, peerEvent, hcDue, wt, udpSent, ret, calls,
                 nextConn, openConns, closeAt, rf, agFault, task, udpLoops,
                 arg, res, lim, rdVars, nt, coVars>>

NextStun ==
  \/ RequestSTUN(AgentPeer)
  \/ HandlePeerEvent
  \/ \E c \in 1..MaxConns, r \in StunPackets : StunArrive(c, r)
  \/ NatTraversalLoop

SpecStun == AgInit /\ [][NextStun]_vars

\* the agent's goroutines run whenever they can; no STUN server has to answer
SpecStunFair ==
  /\ SpecStun
  /\ WF_vars(HandlePeerEvent)
  /\ WF_vars(NatTraversalLoop)

\* C26 (as claimed): every transaction added to the table is eventually
\* removed, whether or not a STUN server answers and whether or not the
\* answer is valid; a packet whose transaction is not in the table sends no
\* frame and changes neither the table nor the peer contexts.
C26_TransactionsRemoved ==
  /\ \A tx \in AllTx : (tx \in stunTx) ~> (tx \notin stunTx)
  /\ [][(stunChan # <<>> /\ stunChan' = Tail(stunChan)
         /\ Head(stunChan).tx \notin stunTx)
        => (wsSent' = wsSent /\ stunTx' = stunTx /\ peersMap' = peersMap)]_vars

(***************************************************************************)
(* The order of the discovery events: the event consumer with the timer of *)
(* its OP_PEER_DISCO2 retry as a step of its own.                          *)
(***************************************************************************)
\* runPeerEventEngine: one event; an OP_PEER_DISCO2 that finds no context is
\* handed to time.AfterFunc and the consumer goes on
HandleEvent ==
  /\ Alive
  /\ task["engine"] = "run"
  /\ peerEvent # <<>>
  /\ LET e == Head(peerEvent) IN
     /\ peersMap' = handlePeerEvent(e)
     /\ peerEvent' = Tail(peerEvent)
     /\ retry' = IF Retried(e) THEN retry \cup {e} ELSE retry
     /\ hcDue' = IF e.op = OP_PEER_DISCO1 THEN now + HealthcheckPeriod ELSE hcDue
     /\ openConns' = openConns \ ClosedBy(e)
     /\ udpLoops' = udpLoops \ ClosedBy(e)
  /\ UNCHANGED <<srvVars, kaVars, stunTx, closeAt, rf, agFault, task, wt, udpSent,
                 wsSent, ret, calls, nextConn, arg, res, lim, rdVars, nt, stunChan, lck, pcl,
                 sentAt, iter>>

\* the function of time.AfterFunc, 100ms later: c.peerEvent <- e
RetryFire(e) ==
  /\ Alive
  /\ e \in retry
  /\ SendPeerEvent(peerEvent, e)
  /\ retry' = retry \ {e}
  /\ UNCHANGED <<srvVars, kaVars, openConns, stunTx, closeAt, rf, task, udpLoops,
                 peersMap, hcDue, wt, udpSent, wsSent, ret, calls, nextConn,
                 arg, res, lim, rdVars, nt, stunChan, lck, pcl,
                 sentAt, iter>>

\* the OP_PEER_DISCO2 of a NAT_TRAVERSAL frame that carries addr
Disco2(addr) == Event(OP_PEER_DISCO2, AgentPeer, addr, NoConn)

\* the event waits on the channel or for its timer
Waiting(e) == (\E i \in 1..Len(peerEvent) : peerEvent[i] = e) \/ e \in retry

\* a NAT_TRAVERSAL frame, one at a time
NatTraversalFrame(addr) == ~Waiting(Disco2(addr)) /\ NatTraversal(AgentPeer, addr)

NextOrder ==
  \/ Advance
  \/ HandleEvent
  \/ RequestSTUN(AgentPeer)
  \/ \E addr \in Addrs : NatTraversalFrame(addr)
  \/ \E addr \in Addrs : RetryFire(Disco2(addr))
  \/ \E addr \in Addrs : ReadPing(AgentPeer, addr)
  \/ HealthcheckFire

SpecOrder == AgInit /\ [][NextOrder]_vars

\* the consumer and the timers run
SpecOrderFair ==
  /\ SpecOrder
  /\ WF_vars(HandleEvent)
  /\ \A addr \in Addrs : WF_vars(RetryFire(Disco2(addr)))

\* the consumer takes the event at the head of the channel
ConsumerStep == peerEvent # <<>> /\ peerEvent' = Tail(peerEvent)

\* C27: the peer-context map changes only in a step of the event consumer; an
\* OP_PEER_DISCO2 handled while the peer has no context creates none and is
\* kept for its retry; and once the PRE_NAT_TRAVERSAL and the NAT_TRAVERSAL of
\* a peer have both arrived, in either order, the peer's context comes to
\* exist with the address the NAT_TRAVERSAL frame carried.
C27_DiscoveryOrder ==
  /\ [][peersMap' # peersMap => ConsumerStep]_vars
  /\ [][(ConsumerStep /\ Retried(Head(peerEvent)))
          => (peersMap' = peersMap /\ Head(peerEvent) \in retry')]_vars
  /\ \A addr \in Addrs :
       (nextConn >= 1 /\ Waiting(Disco2(addr)))
         ~> (peersMap[AgentPeer].ok /\ peersMap[AgentPeer].addr = addr)

(***************************************************************************)
(* The locks of the server: each goroutine as the sequence of lock         *)
(* operations its code performs.                                           *)
(***************************************************************************)
\* sync.RWMutex: Lock takes the writers' slot, which holds new readers off, and
\* then waits for the readers to leave (Drain); sync.Mutex has no readers
LockOp(op, l) == [op |-> op, l |-> l]
RLocked(l, inside) == <<LockOp("RLock", l)>> \o inside \o <<LockOp("RUnlock", l)>>
Locked(l, inside) ==
  <<LockOp("Lock", l), LockOp("Drain", l)>> \o inside \o <<LockOp("Unlock", l)>>
MLocked(l, inside) == <<LockOp("Lock", l)>> \o inside \o <<LockOp("Unlock", l)>>
wMut(s) == IF s = 1 THEN "wMut1" ELSE "wMut2"

\* PeerMap.getNetwork
getNetworkLocks == RLocked("networkMapMutex", <<>>)

\* Peer.writeWS
writeWSLocks(s) == MLocked(wMut(s), <<>>)

\* Peer.leadDisco: target.write, p.write
leadDiscoLocks(p, target) == writeWSLocks(target) \o writeWSLocks(p)

\* Peer.Start of session p with the other session in the directory
StartLocks(p, target) ==
  getNetworkLocks \o RLocked("peersMutex", leadDiscoLocks(p, target))

\* HandlePeerPacketConnect for a network that exists: the lookup, initMeta,
\* SetIfAbsent and the entry of the global index
connectLocks ==
  getNetworkLocks \o MLocked("metaMutex", <<>>) \o Locked("peersMutex", <<>>)
    \o Locked("peerMapMutex", <<>>)

\* PeerMap.removePeer
removePeerLocks ==
  getNetworkLocks \o Locked("peersMutex", <<>>) \o Locked("peerMapMutex", <<>>)

\* PeerMap.getPeer, the target in the sender's network
getPeerLocks == getNetworkLocks \o RLocked("peersMutex", <<>>)

\* readMessageLoop forwarding a frame: the write while getPeer's locks are held
relayLocksNested(target) ==
  getNetworkLocks
    \o MLocked(wMut(target), RLocked("peersMutex", <<>>))

\* readMessageLoop forwarding a frame to target: getPeer, then tgtPeer.write
relayLocks(target) == getPeerLocks \o writeWSLocks(target)

\* Peer.keepalive: the empty text message of a tick
keepaliveLocks(p) == writeWSLocks(p)

\* HandlePutNetworkMeta: getNetwork and updateMeta, which pushes the secret
\* to both sessions
updateMetaLocks ==
  getNetworkLocks
    \o MLocked("metaMutex",
               RLocked("peersMutex", writeWSLocks(1) \o writeWSLocks(2)))

\* HandleQueryNetworkPeers
queryLocks == RLocked("networkMapMutex", RLocked("peersMutex", <<>>))

\* the lock operations of each goroutine
Ops ==
  [t \in Goroutines |->
     CASE t = "start1" -> StartLocks(1, 2)
       [] t = "connect" -> connectLocks
       [] t = "close2" -> removePeerLocks
       [] t = "relay" -> relayLocks(2)
       [] t = "keepalive1" -> keepaliveLocks(1)
       [] t = "putMeta" -> updateMetaLocks
       [] t = "query" -> queryLocks]

Running(t) == pcl[t] <= Len(Ops[t])
NextOp(t) == Ops[t][pcl[t]]

\* the goroutines the next operation of t waits for
Blockers(t) ==
  IF ~Running(t) THEN {}
  ELSE LET o == NextOp(t) IN
       IF o.op \in {"RLock", "Lock"}
       THEN {lck[o.l].w} \ {NoHolder}
       ELSE IF o.op = "Drain" THEN lck[o.l].r
       ELSE {}

\* one lock operation of goroutine t
LockStep(t) ==
  /\ Running(t)
  /\ Blockers(t) = {}
  /\ LET o == NextOp(t) IN
     lck' = CASE o.op = "RLock" -> [lck EXCEPT ![o.l].r = @ \cup {t}]
              [] o.op = "RUnlock" -> [lck EXCEPT ![o.l].r = @ \ {t}]
              [] o.op = "Lock" -> [lck EXCEPT ![o.l].w = t]
              [] o.op = "Drain" -> lck
              [] o.op = "Unlock" -> [lck EXCEPT ![o.l].w = NoHolder]
  /\ pcl' = [pcl EXCEPT ![t] = @ + 1]
  /\ UNCHANGED <<srvVars, kaVars, agVars, cxVars, arg, res, lim, rdVars, nt,
                 stunChan, retry, sentAt, iter>>

LocksInit == Quiet /\ FnIdle

NextLocks == \E t \in Goroutines : LockStep(t)

SpecLocks == LocksInit /\ [][NextLocks]_vars

\* the goroutines t waits for, directly or through others
RECURSIVE WaitsFor(_)
WaitsFor(S) ==
  LET N == S \cup UNION {Blockers(u) : u \in S} IN
  IF N = S THEN S ELSE WaitsFor(N)

\* the locks t holds, and the order in which the code nests them
Holds(t) == {l \in Mutexes : lck[l].w = t \/ t \in lck[l].r}
Rank(l) ==
  CASE l = "networkMapMutex" -> 1
    [] l = "metaMutex" -> 2
    [] l = "peersMutex" -> 3
    [] l = "peerMapMutex" -> 4
    [] OTHER -> 5

\* C28: no goroutine of the server waits, directly or through others, for a
\* lock that is held until it moves itself, and every goroutine that takes a
\* lock while holding another takes them in the one order networkMapMutex,
\* metaMutex, peersMutex, peerMapMutex, wMut.
C28_NoLockCycle ==
  \A t \in Goroutines :
    /\ Blockers(t) # {} => t \notin WaitsFor(Blockers(t))
    /\ (Running(t) /\ NextOp(t).op \in {"RLock", "Lock"})
         => \A l \in Holds(t) : Rank(l) < Rank(NextOp(t).l)

\* the broadcast of a join holds the peers read lock and waits for the write
\* mutex of a session, while a close waits for that read lock
C28_Witness ==
  \E t, u \in Goroutines :
    /\ Running(t) /\ NextOp(t) = LockOp("Drain", "peersMutex")
    /\ u \in Blockers(t)
    /\ Blockers(u) # {}

(***************************************************************************)
(* Resolution through the neighbour list (Spec).                           *)
(***************************************************************************)
\* C29 (as claimed): for a connected sender s of network n, a PeerID that is
\* not registered in n and is registered, with a connected session, in a
\* network of n's neighbour list resolves to that session in the lookup the
\* read loop makes for a frame of s, whatever other networks hold the PeerID
\* and in whatever order its sessions joined or closed.
C29_NeighbourResolves ==
  \A s \in Sessions : Connected(s) =>
    LET n == hdr[s].net IN
    \A id \in PeerIDs : \A m \in neighbors[n] :
      (/\ dir[n][id] = NoSession
       /\ m \in networkMap
       /\ dir[m][id] # NoSession
       /\ Connected(dir[m][id]))
        => getPeer(n, id) = dir[m][id]

(***************************************************************************)
(* The entries of a session and the teardown of another (Spec).            *)
(***************************************************************************)
\* a goroutine of session t enters p.close()
OwnTeardown(t) ==
  \/ rl[t] = "run" /\ rl'[t] = "closing"
  \/ ka[t] = "run" /\ ka'[t] = "closing"

\* C30 (as claimed): a started session that holds the directory entry of its
\* (network, PeerID) loses it only in a step of its own teardown, and while it
\* holds the entry the global index keeps mapping its PeerID to its network;
\* the two removals of an earlier session with the same ID take neither away.
C30_EntriesOutliveOldTeardown ==
  [][\A t \in Sessions : (st[t] = "started" /\ InDir(t)) =>
        /\ InDir(t)' \/ OwnTeardown(t)
        /\ peerMap[hdr[t].id] = hdr[t].net
             => peerMap'[hdr[t].id] = hdr[t].net]_vars

(***************************************************************************)
(* A peer that writes frames of every control code: sessions 1 and 2 of    *)
(* one network, each sending well-formed frames to the other.              *)
(***************************************************************************)
\* the codes of package peer, and 7, which is none of them
PeerCodes == {CONTROL_RELAY, CONTROL_NEW_PEER, CONTROL_NEW_PEER_UDP_ADDR,
              CONTROL_LEAD_DISCO, CONTROL_UPDATE_NETWORK_SECRET, CONTROL_CONN, 7}

\* "hi" and "{}", a JSON blob
PeerPayloads == Payloads \cup {<<123, 125>>}

\* the client of session s writes the frame (code, tgtPeer, p), once the
\* frames before it have been read at both ends
PeerSends(s, code, tgtPeer, p) ==
  /\ \A x \in Sessions : wsOut[x] = <<>> /\ inbound[x] = <<>>
  /\ Len(connData[s]) < MaxQueue
  /\ AgentSendRaw(s, <<code, PeerIDLen(tgtPeer)>> \o tgtPeer \o p)

NextInject ==
  \/ \E s \in {1, 2}, code \in PeerCodes, tgtPeer \in {AgentID, AgentPeer, IDc},
        p \in PeerPayloads : PeerSends(s, code, tgtPeer, p)
  \/ \E s \in {1, 2} : ReadMessage(s)
  \/ \E s \in {1, 2} : AgentRecv(s)

SpecInject == MalformedInit /\ [][NextInject]_vars

\* C31 (as claimed): the read of a frame whose code is a server-to-peer code
\* (NEW_PEER, UPDATE_NETWORK_SECRET), CONTROL_CONN or an undefined code puts
\* nothing on the connection of any other session; only RELAY and
\* NEW_PEER_UDP_ADDR frames are forwarded (LEAD_DISCO makes the server write
\* frames of its own).
C31_OnlyRelayCodesForwarded ==
  [][\A s \in Sessions :
       (ReadStep(s) /\ ReadFrame(s)[1] \notin {CONTROL_RELAY, CONTROL_NEW_PEER_UDP_ADDR,
                                              CONTROL_LEAD_DISCO})
       => \A t \in Sessions \ {s} : wsOut'[t] = wsOut[t]]_vars

(***************************************************************************)
(* Backpressure and the inactivity check: session 1 with a client that     *)
(* never leaves 25 s between two frames, a read loop that runs whenever it *)
(* can, and a consumer of connData that does not read.                     *)
(***************************************************************************)
MaxPending == 1     \* frames written by the client and not yet read
BpBurst == 40       \* rate_limiter.burst, with rate_limiter.limit = 1

\* CONTROL_CONN for the session's own PeerID, and a RELAY frame of BpBurst
\* bytes for a PeerID that is not registered
SmallConn == <<CONTROL_CONN, 1, 97, 120>>
BigRelay == <<CONTROL_RELAY, 2, 98, 99>> \o [i \in 1..(BpBurst - 4) |-> 104]

\* Config.RateLimiter nil, or one byte a second with a burst of BpBurst
BpLimiters ==
  {NoLimiter,
   [limit |-> 1, burst |-> BpBurst, tokens |-> BpBurst, last |-> 0, t |-> 0,
    passed |-> <<0, 0>>, wait |-> [s \in LimSessions |-> NoWait], reads |-> 0]}

BpInit ==
  /\ KaStart
  /\ cfg = DefaultConfig
  /\ AgentIdle
  /\ arg = NoArg
  /\ res = NoArg
  /\ lim \in BpLimiters
  /\ ExIdle

\* the client writes frame b: any number of frames in second 0, and from then
\* on a frame whenever its last one is 24 s old
ClientWrites(b) ==
  /\ ~crashed
  /\ conn[1] = "open"
  /\ now = 0 \/ now - sentAt = InactivityLimit - 1
  /\ Len(wsIn[1]) < MaxPending
  /\ wsIn' = [wsIn EXCEPT ![1] = Append(@, XorBytes(b, NonceOf(1)))]
  /\ sentAt' = now
  /\ UNCHANGED <<st, hdr, conn, rl, ka, networkMap, neighbors, updateTime, dir,
                 peerMap, wsOut, connData, inbound, lastRead, crashed, kaVars,
                 agVars, cxVars, arg, res, lim, rdVars, nt, stunChan, retry, lck,
                 pcl, iter>>

\* the frame waits for the network's data limiter
Limited(b) ==
  /\ lim # NoLimiter
  /\ b # <<>>
  /\ b[1] \notin {CONTROL_LEAD_DISCO, CONTROL_NEW_PEER_UDP_ADDR}

\* readMessageLoop: ReadMessage returns a binary message, activeTime is set,
\* and WaitN reserves the tokens of the frame
ReadBegin ==
  /\ ~crashed
  /\ rl[1] = "run"
  /\ conn[1] = "open"
  /\ iter.pc = "read"
  /\ wsIn[1] # <<>>
  /\ LET b == XorBytes(Head(wsIn[1]), NonceOf(1))
         l == WaitN([lim EXCEPT !.t = now], 1, Len(b)) IN
     IF Limited(b)
     THEN /\ lim' = [l EXCEPT !.passed = lim.passed]
          /\ iter' = [pc |-> IF l.wait[1] = NoWait THEN "dispatch" ELSE "waitN",
                      b |-> b]
     ELSE /\ lim' = lim
          /\ iter' = [pc |-> "dispatch", b |-> b]
  /\ wsIn' = [wsIn EXCEPT ![1] = Tail(@)]
  /\ activeTime' = [activeTime EXCEPT ![1] = now]
  /\ UNCHANGED <<st, hdr, conn, rl, ka, networkMap, neighbors, updateTime, dir,
                 peerMap, wsOut, connData, inbound, lastRead, crashed, now, cfg,
                 nextTick, deadline, kaSent, agVars, cxVars, arg, res, rdVars, nt,
                 stunChan, retry, lck, pcl, sentAt>>

\* the sleep of WaitN ends
WaitEnd ==
  /\ ~crashed
  /\ iter.pc = "waitN"
  /\ lim.wait[1].at <= now
  /\ lim' = [lim EXCEPT !.wait[1] = NoWait]
  /\ iter' = [iter EXCEPT !.pc = "dispatch"]
  /\ UNCHANGED <<srvVars, kaVars, agVars, cxVars, arg, res, rdVars, nt, stunChan,
                 retry, lck, pcl, sentAt>>

\* the outcomes of the iteration that the queues have room for; the send on a
\* full connData blocks
Dispatchable ==
  {r \in DispatchOutcomes(1, iter.b) :
     Fits(r.out) /\ Len(connData[1]) + Len(r.data) <= ConnDataCap}

\* readMessageLoop from getPeer to the end of the iteration
ReadEnd ==
  /\ ~crashed
  /\ rl[1] = "run"
  /\ iter.pc = "dispatch"
  /\ \E r \in Dispatchable :
     /\ wsOut' = r.out
     /\ connData' = [connData EXCEPT ![1] = @ \o r.data]
     /\ crashed' = r.panic
  /\ iter' = NoIter
  /\ UNCHANGED <<st, hdr, conn, rl, ka, networkMap, neighbors, updateTime, dir,
                 peerMap, wsIn, inbound, lastRead, kaVars, agVars, cxVars, arg,
                 res, lim, rdVars, nt, stunChan, retry, lck, pcl, sentAt>>

\* the read loop has a step to take
LoopReady ==
  /\ rl[1] = "run"
  /\ conn[1] = "open"
  /\ \/ iter.pc = "read" /\ wsIn[1] # <<>>
     \/ iter.pc = "waitN" /\ lim.wait[1].at <= now
     \/ iter.pc = "dispatch" /\ Dispatchable # {}

\* a second passes: the read loop is idle or blocked, and the client's last
\* frame will be less than 25 s old
BpAdvance ==
  /\ ~LoopReady
  /\ (now + 1) - sentAt < InactivityLimit
  /\ Advance

NextBackpressure ==
  \/ BpAdvance
  \/ \E b \in {SmallConn, BigRelay} : ClientWrites(b)
  \/ ReadBegin
  \/ WaitEnd
  \/ ReadEnd
  \/ KeepaliveTick(1)
  \/ KeepaliveFinish(1)
  \/ AgentRecv(1)

SpecBackpressure == BpInit /\ [][NextBackpressure]_vars

\* C32 (as claimed): while the client writes a frame at least every 25 s the
\* keepalive task does not close the session, whether the read loop sleeps in
\* WaitN or is blocked on a full connData.
C32_NotClosedUnderBackpressure == ka[1] = "run" /\ conn[1] = "open"
====
